---- MODULE Spec2Model ----
(***************************************************************************)
(* The request dispatcher, the cancellation registry and the watch table   *)
(* of the X-Plorer backend (src/backend/xplorer/server.py, protocol.py,    *)
(* services/file_service.py, services/watch_service.py).                   *)
(*                                                                         *)
(* The server is one asyncio event loop: a coroutine runs without          *)
(* interruption from one suspension point (an await that really waits) to  *)
(* the next, so every action below that runs on the loop is one such run.  *)
(* Work handed to a thread pool (loop.run_in_executor) runs beside the     *)
(* loop and is a separate action.  A handler that performs blocking I/O    *)
(* in the coroutine itself keeps the loop thread for the length of the     *)
(* call: loopBusy names the task that holds it.                            *)
(*                                                                         *)
(* Python values: None is the record None; a missing / None operation_id   *)
(* is the string NoneId; strings are strings; a dict is a record.          *)
(***************************************************************************)
EXTENDS Naturals, Sequences, FiniteSets, TLC

\* ------------------------------------------------------------------ bounds

\* Frames the receive loop accepts in one run of the server.
MaxRequests == 3

\* Calls made on the cancellation registry in one run of SpecRegistry.
MaxRegistryCalls == 5

\* Native reads that return in one run of SpecWatch.
MaxReads == 2

\* The runs of _publish_event a behaviour of the publisher harness holds.
MaxPublishes == 2

\* The messages of fewer than two frames a behaviour receives.
MaxShort == 2

\* The paths the pool specification watches, one more than the pool has
\* workers.
MaxPaths == 5

\* ------------------------------------------------------- program constants

\* ThreadPoolExecutor(max_workers=4) of the file service.
MaxWorkers == 4

\* max_workers of the watch service's ThreadPoolExecutor.
WatchWorkers == 4

\* -------------------------------------------------------------- protocol

None == [py |-> "None"]

NoneId == "<None>"

ErrorCode ==
    {"PATH_NOT_FOUND", "ACCESS_DENIED", "FILE_EXISTS", "DIRECTORY_NOT_EMPTY",
     "INVALID_PATH", "DISK_FULL", "OPERATION_CANCELLED", "OPERATION_FAILED",
     "CONNECTION_FAILED", "TIMEOUT", "INVALID_REQUEST", "UNKNOWN"}

\* The action catalogue ACTIONS of protocol.py: action name -> handler method
\* name (ACTIONS is a reserved word of TLA+).
ACTION_HANDLERS ==
    [a \in {"fs.list", "fs.info", "fs.copy", "fs.move", "fs.delete",
            "fs.rename", "fs.mkdir", "fs.writeFile", "fs.folderStats",
            "fs.folderSize", "fs.drives", "fs.watch", "fs.unwatch",
            "fs.search", "clipboard.copy", "clipboard.cut",
            "clipboard.paste", "clipboard.get", "clipboard.clear",
            "shell.thumbnail", "shell.icon", "shell.contextmenu",
            "shell.execute", "shell.properties", "shell.open",
            "shell.recent", "shell.createShortcut", "shell.knownFolders",
            "theme.list", "theme.get", "theme.save", "theme.delete",
            "sevenzip.check", "sevenzip.addToArchive",
            "sevenzip.addToArchiveDialog", "sevenzip.openArchive",
            "sevenzip.extract", "cancel"} |->
        CASE a = "fs.list" -> "handle_fs_list"
          [] a = "fs.info" -> "handle_fs_info"
          [] a = "fs.copy" -> "handle_fs_copy"
          [] a = "fs.move" -> "handle_fs_move"
          [] a = "fs.delete" -> "handle_fs_delete"
          [] a = "fs.rename" -> "handle_fs_rename"
          [] a = "fs.mkdir" -> "handle_fs_mkdir"
          [] a = "fs.writeFile" -> "handle_fs_write_file"
          [] a = "fs.folderStats" -> "handle_fs_folder_stats"
          [] a = "fs.folderSize" -> "handle_fs_folder_size"
          [] a = "fs.drives" -> "handle_fs_drives"
          [] a = "fs.watch" -> "handle_fs_watch"
          [] a = "fs.unwatch" -> "handle_fs_unwatch"
          [] a = "fs.search" -> "handle_fs_search"
          [] a = "clipboard.copy" -> "handle_clipboard_copy"
          [] a = "clipboard.cut" -> "handle_clipboard_cut"
          [] a = "clipboard.paste" -> "handle_clipboard_paste"
          [] a = "clipboard.get" -> "handle_clipboard_get"
          [] a = "clipboard.clear" -> "handle_clipboard_clear"
          [] a = "shell.thumbnail" -> "handle_shell_thumbnail"
          [] a = "shell.icon" -> "handle_shell_icon"
          [] a = "shell.contextmenu" -> "handle_shell_contextmenu"
          [] a = "shell.execute" -> "handle_shell_execute"
          [] a = "shell.properties" -> "handle_shell_properties"
          [] a = "shell.open" -> "handle_shell_open"
          [] a = "shell.recent" -> "handle_shell_recent"
          [] a = "shell.createShortcut" -> "handle_shell_create_shortcut"
          [] a = "shell.knownFolders" -> "handle_shell_known_folders"
          [] a = "theme.list" -> "handle_theme_list"
          [] a = "theme.get" -> "handle_theme_get"
          [] a = "theme.save" -> "handle_theme_save"
          [] a = "theme.delete" -> "handle_theme_delete"
          [] a = "sevenzip.check" -> "handle_sevenzip_check"
          [] a = "sevenzip.addToArchive" -> "handle_sevenzip_add"
          [] a = "sevenzip.addToArchiveDialog" -> "handle_sevenzip_add_dialog"
          [] a = "sevenzip.openArchive" -> "handle_sevenzip_open"
          [] a = "sevenzip.extract" -> "handle_sevenzip_extract"
          [] a = "cancel" -> "handle_cancel"]

\* The handle_* methods XPServer defines (what getattr(self, name, None) finds).
HandlerMethods ==
    {"handle_cancel", "handle_fs_list", "handle_fs_info", "handle_fs_copy",
     "handle_fs_move", "handle_fs_delete", "handle_fs_rename",
     "handle_fs_mkdir", "handle_fs_write_file", "handle_fs_folder_stats",
     "handle_fs_folder_size", "handle_fs_drives", "handle_fs_watch",
     "handle_fs_unwatch", "handle_fs_search", "handle_clipboard_copy",
     "handle_clipboard_cut", "handle_clipboard_paste", "handle_clipboard_get",
     "handle_clipboard_clear", "handle_shell_thumbnail", "handle_shell_icon",
     "handle_shell_contextmenu", "handle_shell_execute",
     "handle_shell_properties", "handle_shell_open", "handle_shell_recent",
     "handle_shell_create_shortcut", "handle_shell_known_folders",
     "handle_theme_list", "handle_theme_get", "handle_theme_save",
     "handle_theme_delete", "handle_sevenzip_check", "handle_sevenzip_add",
     "handle_sevenzip_add_dialog", "handle_sevenzip_open",
     "handle_sevenzip_extract"}

\* XPError(code, message); details defaults to None and is never given.
XPError(code, message) ==
    [code |-> code, message |-> message, details |-> None]

\* XPResponse(id, success, data=None, error=None).
XPResponse(id, success, data, error) ==
    [id |-> id, success |-> success, data |-> data, error |-> error]

\* XPResponse.to_dict: data and error are left out when they are None.
to_dict(r) ==
    LET result == [id |-> r.id, success |-> r.success]
        withData == IF r.data # None
                    THEN result @@ ("data" :> r.data)
                    ELSE result
        err == [code |-> r.error.code, message |-> r.error.message]
        errDict == IF r.error # None /\ r.error.details # None
                   THEN err @@ ("details" :> r.error.details)
                   ELSE err
    IN  IF r.error # None
        THEN withData @@ ("error" :> errDict)
        ELSE withData

\* ------------------------------------------------------------------ state

VARIABLES
    running,              \* XPServer.running
    router,               \* the ROUTER socket: "none", "open" or "closed"
    tasks,                \* one record per frame handed to _handle_request
    sent,                 \* what router.send_multipart has sent, in order
    loop_pc,              \* _receive_loop: "none", "running" or "exited"
    loopBusy,             \* the task whose blocking call holds the loop thread, or 0
    shortReceived,        \* the messages of fewer than two frames received so far
    _cancellation_tokens, \* XPServer._cancellation_tokens: operation_id -> token
    nextToken,            \* identity of the next asyncio.Event() created
    setCalls,             \* the tokens set() was called on, in order
    regLog,               \* the calls made on the registry, in order
    watch_running,        \* WatchService.running
    watches,              \* WatchService.watches: path -> handle
    nextHandle,           \* the next handle CreateFileW returns
    openHandles,          \* handles opened and not closed
    loops,                \* the _watch_loop runs submitted: <<path, handle>>
    threads,              \* per run of _watch_loop: where it is and its old_name
    readLog,              \* what ReadDirectoryChangesW returned, in order
    emitted,              \* the events _emit_event was called with, in order
    scheduled,            \* the event_callback(event) coroutines given to the loop
    published,            \* what publisher.send_multipart has sent, in order
    publishLog            \* the runs of _publish_event and how each ended

vars ==
    <<running, router, tasks, sent, loop_pc, loopBusy, shortReceived,
      _cancellation_tokens, nextToken,
      setCalls, regLog, watch_running, watches, nextHandle, openHandles, loops,
      threads, readLog, emitted, scheduled, published, publishLog>>

serverVars == <<running, router, tasks, sent, loop_pc, loopBusy, shortReceived>>

registryVars == <<_cancellation_tokens, nextToken, setCalls, regLog>>

publisherVars == <<scheduled, published, publishLog>>

\* The watch service and what becomes of its events.
watchVars ==
    <<watch_running, watches, nextHandle, openHandles, loops, threads,
      readLog, emitted, publisherVars>>

engineVars == <<threads, readLog, emitted, publisherVars>>

\* The empty dict.
EmptyDict == [x \in {} |-> 0]

\* dict.pop(key, None) / del: the dict without key.
Without(d, key) == [x \in DOMAIN d \ {key} |-> d[x]]

\* d[key] = value.
With(d, key, value) ==
    [x \in DOMAIN d \cup {key} |-> IF x = key THEN value ELSE d[x]]

\* A test that takes every operation_id for a real one.
truthy_any(operation_id) == TRUE

\* Python truth of an operation_id: None and "" are false.
Truthy(operation_id) == operation_id \notin {NoneId, ""}

\* ------------------------------------------------- cancellation registry

\* One entry of regLog.
RegCall(call, operation_id, token, result) ==
    [call |-> call, operation_id |-> operation_id, token |-> token,
     result |-> result]

\* _create_cancellation_token: a fresh token k is stored under operation_id.
_create_cancellation_token(reg, operation_id, k) ==
    With(reg, operation_id, k)

\* A _cancel_operation that reads the token and leaves it registered.
cancel_operation_keeps(reg, operation_id) ==
    IF operation_id \in DOMAIN reg
    THEN [tokens |-> reg, set |-> reg[operation_id], ret |-> TRUE]
    ELSE [tokens |-> reg, set |-> 0, ret |-> FALSE]

\* A _cancel_operation that, given an id it does not know, cancels a token
\* registered under another id.
cancel_operation_any(reg, operation_id) ==
    IF operation_id \in DOMAIN reg
    THEN [tokens |-> Without(reg, operation_id), set |-> reg[operation_id],
          ret |-> TRUE]
    ELSE IF DOMAIN reg # {}
    THEN LET k == CHOOSE k \in DOMAIN reg : TRUE
         IN  [tokens |-> Without(reg, k), set |-> reg[k], ret |-> TRUE]
    ELSE [tokens |-> reg, set |-> 0, ret |-> FALSE]

\* A _cancel_operation that, finding the id, empties the registry.
cancel_operation_all(reg, operation_id) ==
    IF operation_id \in DOMAIN reg
    THEN [tokens |-> EmptyDict, set |-> reg[operation_id], ret |-> TRUE]
    ELSE [tokens |-> reg, set |-> 0, ret |-> FALSE]

\* _cancel_operation: pop the token; if there was one, set it and return
\* True, else return False.  set is the token set() is called on (0: none).
_cancel_operation(reg, operation_id) ==
    IF operation_id \in DOMAIN reg
    THEN [tokens |-> Without(reg, operation_id), set |-> reg[operation_id],
          ret |-> TRUE]
    ELSE [tokens |-> reg, set |-> 0, ret |-> FALSE]

\* A _cleanup_token that leaves the entry where it is.
cleanup_token_keeps(reg, operation_id) == reg

\* A release that empties the registry.
cleanup_token_clears(reg, operation_id) == EmptyDict

\* _cleanup_token: pop(operation_id, None).
_cleanup_token(reg, operation_id) == Without(reg, operation_id)

\* handle_cancel: _cancel_operation only for a true operation_id.
handle_cancel(reg, operation_id) ==
    LET c == IF Truthy(operation_id)
             THEN _cancel_operation(reg, operation_id)
             ELSE [tokens |-> reg, set |-> 0, ret |-> FALSE]
    IN  [tokens |-> c.tokens, set |-> c.set,
         result |-> [cancelled |-> c.ret, operation_id |-> operation_id]]

\* ------------------------------------------------------ requests on the wire

\* What msgpack.unpackb makes of a payload: kind "map" is a dict with the
\* given keys, "nonmap" any other value (an integer, a list, nil), "garbled"
\* bytes unpackb raises on.  id, action, operation_id, path are the dict's
\* entries (a missing id is "", a missing operation_id is NoneId).
Payload(kind, id, action, operation_id, path) ==
    [kind |-> kind, id |-> id, action |-> action,
     operation_id |-> operation_id, path |-> path]

Request(id, action, operation_id, path) ==
    Payload("map", id, action, operation_id, path)

\* A two-frame message: the connection identity and the payload.
Frame(identity, payload) == [identity |-> identity, payload |-> payload]

\* The exceptions msgpack.unpackb raises on garbled bytes: FormatError and
\* StackError are UnpackException; incomplete input and extra data are
\* ValueError, outside UnpackException.
UnpackErrors == {"UnpackException", "ValueError"}

\* ------------------------------------------------------- handler outcomes

NoOutcome == [kind |-> "none", value |-> None, exc |-> "", msg |-> ""]

Return(value) == [kind |-> "return", value |-> value, exc |-> "", msg |-> ""]

Raise(exc, msg) == [kind |-> "raise", value |-> None, exc |-> exc, msg |-> msg]

\* The handlers that create a cancellation token.
Cancellable == {"fs.list", "fs.folderSize", "fs.search"}

\* The handlers that await loop.run_in_executor(_executor, ...) of the file
\* service.
FileExecutor ==
    {"fs.info", "fs.copy", "fs.move", "fs.delete", "fs.rename", "fs.mkdir",
     "fs.writeFile", "fs.folderStats", "fs.drives"}

\* The handlers whose service does its file and clipboard I/O in the
\* coroutine itself, on the loop thread.
Inline ==
    {"clipboard.copy", "clipboard.cut", "clipboard.paste", "clipboard.get",
     "clipboard.clear", "theme.list", "theme.get", "theme.save",
     "theme.delete"}

\* What a collaborator's service call can come to.  get_file_info returns
\* the dict of _get_file_info or raises what os.stat raises; get_theme
\* returns what json.load reads from the theme file (null reads as None),
\* raises FileNotFoundError for a missing theme and whatever open and
\* json.load raise.
ServiceOutcomes(action) ==
    {Return([result |-> action]),
     Raise("FileNotFoundError", "not found"),
     Raise("PermissionError", "denied"),
     Raise("Exception", "failed")}
    \cup (IF action = "theme.get" THEN {Return(None)} ELSE {})

\* ------------------------------------------------------------ dispatcher

\* _route_request mapping every error to UNKNOWN.
route_outcome_flat(id, o) ==
    IF o.kind = "return"
    THEN XPResponse(id, TRUE, o.value, None)
    ELSE XPResponse(id, FALSE, None, XPError("UNKNOWN", o.msg))

\* _route_request, lines 201-222: the response for what the handler did.
route_outcome(id, o) ==
    IF o.kind = "return"
    THEN XPResponse(id, TRUE, o.value, None)
    ELSE IF o.exc = "FileNotFoundError"
    THEN XPResponse(id, FALSE, None, XPError("PATH_NOT_FOUND", o.msg))
    ELSE IF o.exc = "PermissionError"
    THEN XPResponse(id, FALSE, None, XPError("ACCESS_DENIED", o.msg))
    ELSE XPResponse(id, FALSE, None, XPError("UNKNOWN", o.msg))

\* A lookup that falls back to a handler for a name it does not know.
lookup_handler_default(action) ==
    IF action \in DOMAIN ACTION_HANDLERS
    THEN ACTION_HANDLERS[action]
    ELSE "handle_fs_watch"

\* ACTIONS.get(request.action): the handler name, or None.
lookup_handler(action) ==
    IF action \in DOMAIN ACTION_HANDLERS
    THEN ACTION_HANDLERS[action]
    ELSE NoneId

\* _route_request, lines 177-199: the response that rejects the request, or
\* None when a handler is found.
route_reject(id, action) ==
    LET handler_name == lookup_handler(action)
    IN  IF handler_name = NoneId
        THEN XPResponse(id, FALSE, None,
                 XPError("INVALID_REQUEST", "Unknown action: " \o action))
        ELSE IF handler_name \notin HandlerMethods
        THEN XPResponse(id, FALSE, None,
                 XPError("INVALID_REQUEST",
                         "Handler not implemented: " \o handler_name))
        ELSE None

\* The handler _route_request calls for a request it does not reject.
handler_of(action) == lookup_handler(action)

\* _handle_request, lines 147-156: unpackb raised an UnpackException.
decode_failed_response ==
    XPResponse("", FALSE, None,
        XPError("INVALID_REQUEST", "Failed to decode request"))

\* _handle_request, lines 157-166, when data was never bound.
unexpected_error_response(msg) ==
    XPResponse("", FALSE, None, XPError("UNKNOWN", msg))

\* ------------------------------------------------------------------ tasks

\* The task asyncio.create_task makes for _handle_request(identity, message).
\* handler, outcome, response, token and seen record what the task did:
\* the handler it invoked, what the handler came to, the XPResponse built,
\* the token created for it, and how many frames had been received when it
\* finished.
NewTask(f) ==
    [identity |-> f.identity, payload |-> f.payload, pc |-> "spawned",
     handler |-> "", outcome |-> NoOutcome, response |-> None,
     token |-> 0, seen |-> 0]

Tasks == 1..Len(tasks)

\* The loop runs the tasks it was given in the order it was given them.
IsNext(t) ==
    /\ tasks[t].pc = "spawned"
    /\ \A u \in 1..(t - 1) : tasks[u].pc # "spawned"

\* A reply addressed to the identity of the frame received last.
reply_identity_latest(t) == tasks[Len(tasks)].identity

\* The identity _handle_request was called with.
reply_identity(t) == tasks[t].identity

\* send_multipart([identity, packb(response.to_dict())]); on a closed socket
\* it raises, the error is logged and nothing is sent.
send_response(t, response) ==
    IF router = "open"
    THEN Append(sent, [to |-> reply_identity(t), task |-> t,
                       body |-> to_dict(response)])
    ELSE sent

\* A cancel that ends the tasks of the operation it names.
cancel_reach_terminates(ts, operation_id) ==
    [u \in 1..Len(ts) |->
        IF /\ ts[u].pc \notin {"done", "crashed"}
           /\ ts[u].payload.kind = "map"
           /\ ts[u].payload.action \in Cancellable
           /\ ts[u].payload.operation_id = operation_id
        THEN [ts[u] EXCEPT !.pc = "crashed"]
        ELSE ts[u]]

\* What _cancel_operation does to the tasks ts: nothing.  It pops the token
\* and calls set() on it; it holds no task and calls no Task.cancel().
cancel_reach(ts, operation_id) == ts

\* The task ends having built response.
Finish(t, handler, outcome, response, token) ==
    /\ tasks' = [tasks EXCEPT ![t] =
                    [@ EXCEPT !.pc = "done", !.handler = handler,
                              !.outcome = outcome, !.response = response,
                              !.token = token, !.seen = Len(tasks)]]
    /\ sent' = send_response(t, response)

\* An exception raised in a task that reaches the receive loop.
on_task_exception_propagates(lp) == "exited"

\* asyncio.create_task: an exception that leaves _handle_request ends that
\* task alone; the receive loop goes on.
on_task_exception(lp) == lp

\* ----------------------------------------------------------- server life

\* XPServer.start: bind the sockets, start the watch service, enter the
\* receive loop.
start ==
    /\ router = "none"
    /\ router' = "open"
    /\ running' = TRUE
    /\ watch_running' = TRUE
    /\ loop_pc' = "running"
    /\ UNCHANGED <<tasks, sent, loopBusy, shortReceived, registryVars, watches, nextHandle,
                   openHandles, loops, engineVars>>

\* A loop that goes on receiving whatever the running flag says.
receive_ready_ignores_flag ==
    /\ loop_pc = "running"
    /\ loopBusy = 0

\* The condition under which _receive_loop takes the next frame: the loop
\* is in its while, the poll finds a message, and the loop thread is free.
receive_ready ==
    /\ loop_pc = "running"
    /\ running
    /\ router = "open"
    /\ loopBusy = 0

\* _receive_loop, lines 112-119: a message of two frames or more is
\* received and a task is created for it.
recv_multipart(f) ==
    /\ receive_ready
    /\ tasks' = Append(tasks, NewTask(f))
    /\ UNCHANGED <<running, router, sent, loop_pc, loopBusy, shortReceived, registryVars,
                   watchVars>>

\* _receive_loop, one iteration with a message of two frames or more.
_receive_loop(f) ==
    /\ Len(tasks) < MaxRequests
    /\ recv_multipart(f)

\* A loop that takes a message of one frame for a request.
dispatched_any(frames) == Len(frames) >= 1

\* _receive_loop, line 114: 'if len(frames) >= 2'.
dispatched(frames) == Len(frames) >= 2

\* _receive_loop, lines 112-119, one iteration with a message of any number
\* of frames: with two frames or more the first is the identity and the
\* last the payload of a new task, else nothing is done with the message.
\* The payload of a message this short is no request.
recv_frames(frames) ==
    /\ receive_ready
    /\ Len(tasks) < MaxRequests
    /\ shortReceived < MaxShort
    /\ shortReceived' = IF Len(frames) < 2 THEN shortReceived + 1
                        ELSE shortReceived
    /\ tasks' = IF dispatched(frames)
                THEN Append(tasks,
                            NewTask(Frame(frames[1],
                                          Payload("garbled", "", "", NoneId,
                                                  ""))))
                ELSE tasks
    /\ UNCHANGED <<running, router, sent, loop_pc, loopBusy, registryVars,
                   watchVars>>

\* _receive_loop leaves its while once running is false.
receive_loop_exit ==
    /\ loop_pc = "running"
    /\ ~running
    /\ loopBusy = 0
    /\ loop_pc' = "exited"
    /\ UNCHANGED <<running, router, tasks, sent, loopBusy, shortReceived, registryVars,
                   watchVars>>

\* A close that fails on a socket already closed.
socket_close_strict(socket) ==
    IF socket = "open" THEN "closed"
    ELSE IF socket = "closed" THEN "error" ELSE socket

\* stop, lines 98-101: 'if self.router: self.router.close()', and the same
\* for the publisher.  Closing a closed socket does nothing; before start
\* there is no socket.
socket_close(socket) == IF socket = "none" THEN "none" ELSE "closed"

\* XPServer.stop with WatchService.stop, as a function of the state it
\* works on: both flags cleared, the handles of the table closed, the table
\* cleared, the sockets closed.
server_stop(st) ==
    [running |-> FALSE,
     watch_running |-> FALSE,
     openHandles |-> st.openHandles \ {st.watches[p] : p \in DOMAIN st.watches},
     watches |-> EmptyDict,
     router |-> socket_close(st.router)]

\* The part of the state stop works on.
StopState ==
    [running |-> running, watch_running |-> watch_running,
     openHandles |-> openHandles, watches |-> watches, router |-> router]

\* XPServer.stop with WatchService.stop: no await in it waits, so it is one
\* run of the loop.
stop ==
    /\ running
    /\ loopBusy = 0
    /\ LET st == server_stop(StopState)
       IN  /\ running' = st.running
           /\ watch_running' = st.watch_running
           /\ openHandles' = st.openHandles
           /\ watches' = st.watches
           /\ router' = st.router
    /\ UNCHANGED <<tasks, sent, loop_pc, loopBusy, shortReceived, registryVars, nextHandle,
                   loops, engineVars>>

\* main, lines 474-479: start has returned because the receive loop ended,
\* and the finally clause calls stop once more; then main returns.
main_finally ==
    /\ loop_pc = "exited"
    /\ loopBusy = 0
    /\ loop_pc' = "finished"
    /\ LET st == server_stop(StopState)
       IN  /\ running' = st.running
           /\ watch_running' = st.watch_running
           /\ openHandles' = st.openHandles
           /\ watches' = st.watches
           /\ router' = st.router
    /\ UNCHANGED <<tasks, sent, loopBusy, shortReceived, registryVars, nextHandle, loops,
                   engineVars>>

\* ------------------------------------------------- _handle_request, decoding

\* unpackb raises: an UnpackException is answered INVALID_REQUEST; any other
\* exception reaches "except Exception" with data never bound, so the id is
\* "" and the code UNKNOWN.
decode_error(t) ==
    /\ loopBusy = 0
    /\ IsNext(t)
    /\ tasks[t].payload.kind = "garbled"
    /\ \E exc \in UnpackErrors :
          Finish(t, "", NoOutcome,
                 IF exc = "UnpackException"
                 THEN decode_failed_response
                 ELSE unexpected_error_response("Unpack failed"),
                 0)
    /\ UNCHANGED <<running, router, loop_pc, loopBusy, shortReceived, registryVars,
                   watchVars>>

\* unpackb returns a value that is no dict: data.get raises AttributeError,
\* and the "except Exception" handler, finding data bound, calls data.get
\* again; that exception leaves _handle_request before any response exists.
decode_nonmap(t) ==
    /\ loopBusy = 0
    /\ IsNext(t)
    /\ tasks[t].payload.kind = "nonmap"
    /\ tasks' = [tasks EXCEPT ![t] =
                    [@ EXCEPT !.pc = "crashed", !.seen = Len(tasks)]]
    /\ loop_pc' = on_task_exception(loop_pc)
    /\ UNCHANGED <<running, router, sent, loopBusy, shortReceived, registryVars, watchVars>>

\* ------------------------------------------------- _route_request, handlers

IsRequest(t) == tasks[t].payload.kind = "map"

Routed(t, handlers) ==
    /\ loopBusy = 0
    /\ IsNext(t)
    /\ IsRequest(t)
    /\ route_reject(tasks[t].payload.id, tasks[t].payload.action) = None
    /\ handler_of(tasks[t].payload.action) \in handlers

\* The action is not in ACTIONS, or its handler is not a method.
reject(t) ==
    /\ loopBusy = 0
    /\ IsNext(t)
    /\ IsRequest(t)
    /\ route_reject(tasks[t].payload.id, tasks[t].payload.action) # None
    /\ Finish(t, "", NoOutcome,
              route_reject(tasks[t].payload.id, tasks[t].payload.action), 0)
    /\ UNCHANGED <<running, router, loop_pc, loopBusy, shortReceived, registryVars,
                   watchVars>>

\* handle_cancel.
cancel(t) ==
    /\ Routed(t, {"handle_cancel"})
    /\ LET p == tasks[t].payload
           c == handle_cancel(_cancellation_tokens, p.operation_id)
       IN  /\ _cancellation_tokens' = c.tokens
           /\ setCalls' = IF c.set # 0 THEN Append(setCalls, c.set)
                          ELSE setCalls
           /\ regLog' = Append(regLog,
                 RegCall("cancel", p.operation_id, c.set, c.result.cancelled))
           /\ tasks' = [cancel_reach(tasks, p.operation_id) EXCEPT ![t] =
                           [@ EXCEPT !.pc = "done",
                                     !.handler = "handle_cancel",
                                     !.outcome = Return(c.result),
                                     !.response =
                                         route_outcome(p.id, Return(c.result)),
                                     !.seen = Len(tasks)]]
           /\ sent' = send_response(t, route_outcome(p.id, Return(c.result)))
    /\ UNCHANGED <<running, router, loop_pc, loopBusy, shortReceived, nextToken, watchVars>>

\* Positional arguments the FileService method takes after self.
ServiceParams(action) ==
    CASE action = "fs.list" -> 1
      [] action = "fs.folderSize" -> 1
      [] action = "fs.search" -> 3

\* Positional arguments the handler passes: the cancel token is the last.
HandlerArgs(action) ==
    CASE action = "fs.list" -> 2
      [] action = "fs.folderSize" -> 2
      [] action = "fs.search" -> 4

\* handle_fs_list, handle_fs_folder_size, handle_fs_search: the token is
\* created for a true operation_id, the service method is called with the
\* token as one argument more than it takes, which raises TypeError at the
\* call, and the finally clause removes the token.  Nothing in between
\* awaits, so all of it is one run.
cancellable(t) ==
    /\ Routed(t, {"handle_fs_list", "handle_fs_folder_size",
                  "handle_fs_search"})
    /\ HandlerArgs(tasks[t].payload.action)
         > ServiceParams(tasks[t].payload.action)
    /\ LET p == tasks[t].payload
           created == Truthy(p.operation_id)
           k == nextToken
           reg1 == IF created
                   THEN _create_cancellation_token(_cancellation_tokens,
                                                   p.operation_id, k)
                   ELSE _cancellation_tokens
           o == Raise("Exception", "takes fewer positional arguments")
           reg2 == IF created THEN _cleanup_token(reg1, p.operation_id)
                   ELSE reg1
       IN  /\ _cancellation_tokens' = reg2
           /\ nextToken' = IF created THEN k + 1 ELSE k
           /\ regLog' = IF created
                        THEN regLog \o
                             <<RegCall("create", p.operation_id, k, TRUE),
                               RegCall("cleanup", p.operation_id, k,
                                       p.operation_id \in DOMAIN reg1)>>
                        ELSE regLog
           /\ Finish(t, handler_of(p.action), o, route_outcome(p.id, o),
                     IF created THEN k ELSE 0)
    /\ UNCHANGED <<running, router, loop_pc, loopBusy, shortReceived, setCalls, watchVars>>

\* ------------------------------------------------------------ watch engine

\* FILE_ACTION_* of watch_service.py.
FILE_ACTION_ADDED == 1

FILE_ACTION_REMOVED == 2

FILE_ACTION_MODIFIED == 3

FILE_ACTION_RENAMED_OLD_NAME == 4

FILE_ACTION_RENAMED_NEW_NAME == 5

\* ERROR_OPERATION_ABORTED, the error _watch_loop breaks on.
ERROR_OPERATION_ABORTED == 995

\* One FILE_NOTIFY_INFORMATION record of a buffer.
NotifyInformation(action, filename) ==
    [Action |-> action, FileName |-> filename]

\* full_path = f"{path}\\{filename}".
full_path(path, filename) == path \o "\\" \o filename

\* The XPEvent _emit_event builds: data holds eventType and, when extra_data
\* is a non-empty dict, its entries (the timestamp is left out).
XPEvent(event_type, path, extra_data) ==
    [type |-> "fs.changed", path |-> path,
     data |-> [eventType |-> event_type] @@ extra_data]

\* A decode that emits an event for the old-name record as well.
decode_record_eager(path, old_name, info) ==
    LET fp == full_path(path, info.FileName)
    IN  IF info.Action = FILE_ACTION_RENAMED_OLD_NAME
        THEN [events |-> <<XPEvent("renamed", fp, EmptyDict)>>,
              old_name |-> fp]
        ELSE IF info.Action = FILE_ACTION_RENAMED_NEW_NAME
        THEN [events |->
                  <<XPEvent("renamed", fp, [oldPath |-> old_name])>>,
              old_name |-> NoneId]
        ELSE [events |-> <<>>, old_name |-> old_name]

\* _watch_loop, lines 181-201: what one record adds to the events and does
\* to old_name (NoneId: None).
decode_record(path, old_name, info) ==
    LET fp == full_path(path, info.FileName)
    IN  IF info.Action = FILE_ACTION_ADDED
        THEN [events |-> <<XPEvent("created", fp, EmptyDict)>>,
              old_name |-> old_name]
        ELSE IF info.Action = FILE_ACTION_REMOVED
        THEN [events |-> <<XPEvent("deleted", fp, EmptyDict)>>,
              old_name |-> old_name]
        ELSE IF info.Action = FILE_ACTION_MODIFIED
        THEN [events |-> <<XPEvent("modified", fp, EmptyDict)>>,
              old_name |-> old_name]
        ELSE IF info.Action = FILE_ACTION_RENAMED_OLD_NAME
        THEN [events |-> <<>>, old_name |-> fp]
        ELSE IF info.Action = FILE_ACTION_RENAMED_NEW_NAME
        THEN [events |->
                  <<XPEvent("renamed", fp, [oldPath |-> old_name])>>,
              old_name |-> NoneId]
        ELSE [events |-> <<>>, old_name |-> old_name]

\* _watch_loop, lines 174-205: the records of one buffer in order.  Each
\* event is kept with the position of the record it came from.
RECURSIVE decode(_, _, _, _)
decode(path, old_name, buffer, i) ==
    IF i > Len(buffer)
    THEN [events |-> <<>>, old_name |-> old_name]
    ELSE LET d == decode_record(path, old_name, buffer[i])
             rest == decode(path, d.old_name, buffer, i + 1)
         IN  [events |-> [k \in 1..Len(d.events) |->
                             [record |-> i, event |-> d.events[k]]]
                         \o rest.events,
              old_name |-> rest.old_name]

\* A run of _watch_loop as the pool starts it: at the while test, old_name
\* None.
NewThread == [pc |-> "test", old_name |-> NoneId]

\* An unwatch that closes every handle of the table.
closed_by_unwatch_all(w, path) == {w[q] : q \in DOMAIN w}

\* WatchService.unwatch, lines 121-129: the handles CancelIo and CloseHandle
\* are called on, those of the entry popped.
closed_by_unwatch(w, path) ==
    IF path \in DOMAIN w THEN {w[path]} ELSE {}

\* handle_fs_unwatch with WatchService.unwatch: pop the entry and close its
\* handle.
unwatch(t) ==
    /\ Routed(t, {"handle_fs_unwatch"})
    /\ LET p == tasks[t].payload
           o == Return([unwatched |-> p.path])
       IN  /\ watches' = Without(watches, p.path)
           /\ openHandles' = openHandles \ closed_by_unwatch(watches, p.path)
           /\ Finish(t, "handle_fs_unwatch", o, route_outcome(p.id, o), 0)
    /\ UNCHANGED <<running, router, loop_pc, loopBusy, shortReceived, registryVars,
                   watch_running, nextHandle, loops, engineVars>>

\* A watch that never finds the path watched.
already_watching_never(w, path) == FALSE

\* WatchService.watch, line 80: path in self.watches.
already_watching(w, path) == path \in DOMAIN w

\* handle_fs_watch with WatchService.watch up to its await: an already
\* watched path returns at once, else start_watch goes to the default
\* executor and the handler waits for it.
watch(t) ==
    /\ Routed(t, {"handle_fs_watch"})
    /\ LET p == tasks[t].payload
           o == Return([watching |-> p.path])
       IN  IF already_watching(watches, p.path)
           THEN Finish(t, "handle_fs_watch", o, route_outcome(p.id, o), 0)
           ELSE /\ tasks' = [tasks EXCEPT ![t] =
                               [@ EXCEPT !.pc = "awaiting",
                                         !.handler = "handle_fs_watch"]]
                /\ UNCHANGED sent
    /\ UNCHANGED <<running, router, loop_pc, loopBusy, shortReceived, registryVars,
                   watchVars>>

\* start_watch, in an executor thread: CreateFileW fails and OSError is
\* raised, or the handle is stored in watches and _watch_loop is submitted;
\* the submit raises once stop has shut the executor down.
start_watch(t) ==
    /\ tasks[t].pc = "awaiting"
    /\ tasks[t].handler = "handle_fs_watch"
    /\ tasks[t].outcome = NoOutcome
    /\ LET p == tasks[t].payload
           h == nextHandle
       IN  \/ /\ tasks' = [tasks EXCEPT ![t].outcome =
                              Raise("Exception", "CreateFileW failed")]
              /\ UNCHANGED watchVars
           \/ /\ watches' = With(watches, p.path, h)
              /\ openHandles' = openHandles \cup {h}
              /\ nextHandle' = h + 1
              /\ loops' = IF watch_running THEN loops \cup {<<p.path, h>>}
                          ELSE loops
              /\ threads' = IF watch_running
                            THEN With(threads, <<p.path, h>>, NewThread)
                            ELSE threads
              /\ tasks' = [tasks EXCEPT ![t].outcome =
                              IF watch_running
                              THEN Return([watching |-> p.path])
                              ELSE Raise("Exception",
                                         "cannot schedule new futures")]
              /\ UNCHANGED <<watch_running, readLog, emitted, publisherVars>>
    /\ UNCHANGED <<running, router, sent, loop_pc, loopBusy, shortReceived, registryVars>>

\* handle_fs_watch after its await.
watch_resume(t) ==
    /\ loopBusy = 0
    /\ tasks[t].pc = "awaiting"
    /\ tasks[t].handler = "handle_fs_watch"
    /\ tasks[t].outcome # NoOutcome
    /\ Finish(t, "handle_fs_watch", tasks[t].outcome,
              route_outcome(tasks[t].payload.id, tasks[t].outcome), 0)
    /\ UNCHANGED <<running, router, loop_pc, loopBusy, shortReceived, registryVars,
                   watchVars>>

\* The handlers of FileExecutor up to their await: the service checks its
\* argument and hands the blocking call to its thread pool.
offload(t) ==
    /\ Routed(t, {ACTION_HANDLERS[a] : a \in FileExecutor})
    /\ LET p == tasks[t].payload
           o == Raise("Exception", "Path is required")
       IN  IF p.path = "" /\ p.action # "fs.drives"
           THEN Finish(t, handler_of(p.action), o, route_outcome(p.id, o), 0)
           ELSE /\ tasks' = [tasks EXCEPT ![t] =
                               [@ EXCEPT !.pc = "awaiting",
                                         !.handler = handler_of(p.action)]]
                /\ UNCHANGED sent
    /\ UNCHANGED <<running, router, loop_pc, loopBusy, shortReceived, registryVars,
                   watchVars>>

\* The pool runs a job once fewer than max_workers jobs submitted before it
\* are unfinished.
HasWorker(t) ==
    Cardinality({u \in 1..(t - 1) :
                    /\ tasks[u].pc = "awaiting"
                    /\ tasks[u].payload.action \in FileExecutor})
        < MaxWorkers

\* The pool's job ends in o and the handler goes on after its await.
offload_done(t, o) ==
    /\ loopBusy = 0
    /\ tasks[t].pc = "awaiting"
    /\ tasks[t].payload.action \in FileExecutor
    /\ HasWorker(t)
    /\ o \in ServiceOutcomes(tasks[t].payload.action)
    /\ Finish(t, tasks[t].handler, o, route_outcome(tasks[t].payload.id, o), 0)
    /\ UNCHANGED <<running, router, loop_pc, loopBusy, shortReceived, registryVars,
                   watchVars>>

\* The handlers of Inline: the service's blocking calls run in the
\* coroutine, so the loop thread is theirs until they return.
inline(t) ==
    /\ Routed(t, {ACTION_HANDLERS[a] : a \in Inline})
    /\ tasks' = [tasks EXCEPT ![t] =
                    [@ EXCEPT !.pc = "blocking",
                              !.handler = handler_of(tasks[t].payload.action)]]
    /\ loopBusy' = t
    /\ UNCHANGED <<running, router, sent, loop_pc, shortReceived,
                   registryVars, watchVars>>

\* The blocking call returns or raises; the response is sent in the same run.
inline_done(t, o) ==
    /\ loopBusy = t
    /\ tasks[t].pc = "blocking"
    /\ o \in ServiceOutcomes(tasks[t].payload.action)
    /\ Finish(t, tasks[t].handler, o, route_outcome(tasks[t].payload.id, o), 0)
    /\ loopBusy' = 0
    /\ UNCHANGED <<running, router, loop_pc, shortReceived, registryVars,
                   watchVars>>

\* ------------------------------------------------- _watch_loop, the thread

\* ctypes.get_last_error(): the ctypes-private copy of LastError, which
\* only calls through a library loaded with use_last_error=True update;
\* ctypes.windll.kernel32 is not, so the copy keeps its initial value.
get_last_error == 0

\* The result of one ReadDirectoryChangesW call: the buffer's records, a
\* success with bytes_returned 0, a failure (result 0) with the error
\* get_last_error gives, or an exception raised in the try block.
ReadRecords(buffer) == [kind |-> "records", buffer |-> buffer, error |-> 0]

ReadZero == [kind |-> "zero", buffer |-> <<>>, error |-> 0]

ReadFailed == [kind |-> "failed", buffer |-> <<>>, error |-> get_last_error]

ReadException == [kind |-> "exception", buffer |-> <<>>, error |-> 0]

\* A pool that gives every submitted run a thread at once.
has_watch_worker_dedicated(l) == TRUE

\* self._executor, watch_service.py 50 and 111: the pool runs the submitted
\* _watch_loop calls in the order of submission on WatchWorkers threads, so
\* run l has a thread once fewer than WatchWorkers of the runs submitted
\* before it are unfinished.
HasWatchWorker(l) ==
    Cardinality({m \in loops : m[2] < l[2] /\ threads[m].pc # "ended"})
        < WatchWorkers

\* _watch_loop, line 150: the while test.  The run goes into the blocking
\* read or returns.
watch_loop_test(l) ==
    /\ l \in loops
    /\ threads[l].pc = "test"
    /\ HasWatchWorker(l)
    /\ threads' = [threads EXCEPT ![l].pc =
                      IF watch_running /\ l[1] \in DOMAIN watches
                      THEN "reading" ELSE "ended"]
    /\ UNCHANGED <<serverVars, registryVars, watch_running, watches,
                   nextHandle, openHandles, loops, readLog, emitted,
                   publisherVars>>

\* The events of read number n of run l, as _emit_event was called.
Emitted(l, n, events) ==
    [k \in 1..Len(events) |->
        [loop |-> l, read |-> n, record |-> events[k].record,
         event |-> events[k].event]]

\* What a failed read does, lines 163-168: break on
\* ERROR_OPERATION_ABORTED, else log and go round again.
after_failed_read(error) ==
    IF error = ERROR_OPERATION_ABORTED THEN "ended" ELSE "test"

\* A get_event_loop that finds the server's loop from any thread.
get_event_loop_shared(thread) == "loop"

\* asyncio.get_event_loop() as _emit_event calls it, line 228: only the
\* thread that runs the loop has one; in any other thread that is not the
\* main thread the policy raises RuntimeError.
get_event_loop(thread) ==
    IF thread = "MainThread" THEN "loop" ELSE "RuntimeError"

\* _emit_event, lines 226-234, called in a thread of the watch pool with
\* events in turn: the coroutines event_callback(event) that
\* run_coroutine_threadsafe gives to the loop.  When get_event_loop raises,
\* the except clause logs the error and the event is given to no one.
handed_to_callback(events) ==
    IF get_event_loop("watch_") = "loop" THEN events ELSE <<>>

\* The events one read makes _watch_loop emit: those of the records, or
\* OVERFLOW for an exception while running.
EventsOfRead(l, n, r, old_name) ==
    IF r.kind = "records"
    THEN Emitted(l, n, decode(l[1], old_name, r.buffer, 1).events)
    ELSE IF r.kind = "exception" /\ watch_running
    THEN <<[loop |-> l, read |-> n, record |-> 0,
            event |-> XPEvent("overflow", l[1], EmptyDict)]>>
    ELSE <<>>

\* _watch_loop, lines 151-212: one read returns r and is dealt with.
\* emitted keeps the calls of _emit_event, scheduled what they hand over.
watch_loop_read(l, r) ==
    /\ l \in loops
    /\ threads[l].pc = "reading"
    /\ Len(readLog) < MaxReads
    /\ readLog' = Append(readLog, [loop |-> l, result |-> r])
    /\ LET n == Len(readLog) + 1
           d == decode(l[1], threads[l].old_name, r.buffer, 1)
           new == EventsOfRead(l, n, r, threads[l].old_name)
       IN  /\ emitted' = emitted \o new
           /\ scheduled' = scheduled \o
                 handed_to_callback([k \in 1..Len(new) |-> new[k].event])
           /\ threads' = [threads EXCEPT ![l] =
                 CASE r.kind = "records" ->
                          [pc |-> "test", old_name |-> d.old_name]
                   [] r.kind = "zero" -> [@ EXCEPT !.pc = "test"]
                   [] r.kind = "failed" ->
                          [@ EXCEPT !.pc = after_failed_read(r.error)]
                   [] r.kind = "exception" -> [@ EXCEPT !.pc = "ended"]]
    /\ UNCHANGED <<serverVars, registryVars, watch_running, watches,
                   nextHandle, openHandles, loops, published, publishLog>>

\* _watch_loop, lines 152-171, seen record by record: ReadDirectoryChangesW
\* returns the buffer of r and the run goes on to parse it.  read and next
\* tell which buffer and which record the inner while is at.
watch_loop_return(l, r) ==
    /\ l \in loops
    /\ threads[l].pc = "reading"
    /\ r.kind = "records"
    /\ Len(readLog) < MaxReads
    /\ readLog' = Append(readLog, [loop |-> l, result |-> r])
    /\ threads' = [threads EXCEPT ![l] =
                      [pc |-> "decoding", old_name |-> @.old_name,
                       read |-> Len(readLog) + 1, next |-> 1]]
    /\ UNCHANGED <<serverVars, registryVars, watch_running, watches,
                   nextHandle, openHandles, loops, emitted, publisherVars>>

\* _watch_loop, lines 175-205: one turn of the inner while.  The record is
\* decoded and its event emitted; nothing is asked of running or watches
\* between two records.
watch_loop_decode(l) ==
    /\ l \in loops
    /\ threads[l].pc = "decoding"
    /\ LET n == threads[l].read
           i == threads[l].next
           buffer == readLog[n].result.buffer
           d == decode_record(l[1], threads[l].old_name, buffer[i])
           new == Emitted(l, n, [k \in 1..Len(d.events) |->
                                    [record |-> i, event |-> d.events[k]]])
       IN  /\ emitted' = emitted \o new
           /\ scheduled' = scheduled \o handed_to_callback(d.events)
           /\ threads' = [threads EXCEPT ![l] =
                 IF i = Len(buffer)
                 THEN [pc |-> "test", old_name |-> d.old_name]
                 ELSE [@ EXCEPT !.next = i + 1,
                                !.old_name = d.old_name]]
    /\ UNCHANGED <<serverVars, registryVars, watch_running, watches,
                   nextHandle, openHandles, loops, readLog, published,
                   publishLog>>

\* ------------------------------------------------------------- publisher

\* _publish_event, lines 227-229: the two frames of one event, the topic
\* (the event's path) and the packed event.
publish_frames(event) == [topic |-> event.path, data |-> event]

\* A failure handler that puts the event back at the end of the queue.
on_publish_failure_requeues(queue, event) == Append(queue, event)

\* _publish_event, lines 230-231: the except clause logs the error; the
\* event is in no queue afterwards.
on_publish_failure(queue, event) == queue

\* WatchService.event_callback (watch_service.py 231), which is
\* XPServer._publish_event (server.py 46): the coroutine is given to the
\* loop.
event_callback(event) ==
    /\ running
    /\ Len(scheduled) + Len(publishLog) < MaxPublishes
    /\ scheduled' = Append(scheduled, event)
    /\ UNCHANGED <<serverVars, registryVars, watch_running, watches,
                   nextHandle, openHandles, loops, threads, readLog,
                   emitted, published, publishLog>>

\* _publish_event, lines 224-232, run by the loop for the oldest scheduled
\* coroutine; write tells whether send_multipart succeeds.  A closed
\* publisher makes every send raise.  Nothing but the publisher's own
\* output changes.
_publish_event(write) ==
    /\ loopBusy = 0
    /\ scheduled # <<>>
    /\ LET event == Head(scheduled)
           ok == write /\ router = "open"
       IN  /\ published' = IF ok
                           THEN Append(published, publish_frames(event))
                           ELSE published
           /\ scheduled' = IF ok
                           THEN Tail(scheduled)
                           ELSE on_publish_failure(Tail(scheduled), event)
           /\ publishLog' = Append(publishLog,
                 [event |-> event,
                  outcome |-> IF ok THEN "sent" ELSE "logged"])
    /\ UNCHANGED <<serverVars, registryVars, watch_running, watches,
                   nextHandle, openHandles, loops, threads, readLog,
                   emitted>>

\* ---------------------------------------------------------- specification

Identities == {"c1", "c2"}

\* The frames the frontend sends in the runs checked.
Frames ==
    {Frame("c1", Request("1", "fs.info", NoneId, "P")),
     Frame("c2", Request("2", "cancel", "X", "")),
     Frame("c1", Request("3", "fs.folderSize", "X", "P")),
     Frame("c2", Request("4", "fs.watch", NoneId, "P")),
     Frame("c1", Request("5", "fs.unwatch", NoneId, "P")),
     Frame("c2", Request("6", "fs.format", NoneId, "P")),
     Frame("c1", Request("7", "theme.get", NoneId, "")),
     Frame("c1", Payload("garbled", "", "", NoneId, "")),
     Frame("c2", Payload("nonmap", "", "", NoneId, ""))}

Init ==
    /\ running = FALSE
    /\ router = "none"
    /\ tasks = <<>>
    /\ sent = <<>>
    /\ loop_pc = "none"
    /\ loopBusy = 0
    /\ shortReceived = 0
    /\ _cancellation_tokens = EmptyDict
    /\ nextToken = 1
    /\ setCalls = <<>>
    /\ regLog = <<>>
    /\ watch_running = FALSE
    /\ watches = EmptyDict
    /\ nextHandle = 1
    /\ openHandles = {}
    /\ loops = {}
    /\ threads = EmptyDict
    /\ readLog = <<>>
    /\ emitted = <<>>
    /\ scheduled = <<>>
    /\ published = <<>>
    /\ publishLog = <<>>

Next ==
    \/ start
    \/ \E f \in Frames : _receive_loop(f)
    \/ receive_loop_exit
    \/ stop
    \/ \E t \in Tasks : decode_error(t)
    \/ \E t \in Tasks : decode_nonmap(t)
    \/ \E t \in Tasks : reject(t)
    \/ \E t \in Tasks : cancel(t)
    \/ \E t \in Tasks : cancellable(t)
    \/ \E t \in Tasks : unwatch(t)
    \/ \E t \in Tasks : watch(t)
    \/ \E t \in Tasks : start_watch(t)
    \/ \E t \in Tasks : watch_resume(t)
    \/ \E t \in Tasks : offload(t)
    \/ \E t \in Tasks : \E o \in ServiceOutcomes("fs.info") : offload_done(t, o)
    \/ \E t \in Tasks : inline(t)
    \/ \E t \in Tasks : \E o \in ServiceOutcomes("theme.get") : inline_done(t, o)

Spec == Init /\ [][Next]_vars

\* ------------------------------------------- the registry on its own

\* The operation ids the registry is called with (NoneId and "": a cancel
\* request that gives none).
OperationIds == {"X", "Y"}

\* _create_cancellation_token called by a handler for operation_id.
registry_create(operation_id) ==
    /\ Len(regLog) < MaxRegistryCalls
    /\ _cancellation_tokens' =
           _create_cancellation_token(_cancellation_tokens, operation_id,
                                      nextToken)
    /\ nextToken' = nextToken + 1
    /\ regLog' = Append(regLog, RegCall("create", operation_id, nextToken, TRUE))
    /\ UNCHANGED <<serverVars, setCalls, watchVars>>

\* handle_cancel called with operation_id.
registry_cancel(operation_id) ==
    /\ Len(regLog) < MaxRegistryCalls
    /\ LET c == handle_cancel(_cancellation_tokens, operation_id)
       IN  /\ _cancellation_tokens' = c.tokens
           /\ setCalls' = IF c.set # 0 THEN Append(setCalls, c.set)
                          ELSE setCalls
           /\ regLog' = Append(regLog,
                 RegCall("cancel", operation_id, c.set, c.result.cancelled))
    /\ UNCHANGED <<serverVars, nextToken, watchVars>>

\* _cleanup_token called by a handler's finally clause.
registry_cleanup(operation_id) ==
    /\ Len(regLog) < MaxRegistryCalls
    /\ _cancellation_tokens' = _cleanup_token(_cancellation_tokens, operation_id)
    /\ regLog' = Append(regLog,
           RegCall("cleanup", operation_id, 0,
                   operation_id \in DOMAIN _cancellation_tokens))
    /\ UNCHANGED <<serverVars, nextToken, setCalls, watchVars>>

NextRegistry ==
    \/ \E x \in OperationIds : registry_create(x)
    \/ \E x \in OperationIds \cup {NoneId, ""} : registry_cancel(x)
    \/ \E x \in OperationIds : registry_cleanup(x)

\* The three registry methods called in any order, as the handlers call them.
SpecRegistry == Init /\ [][NextRegistry]_vars

\* ------------------------------------------- the watch service at work

\* The buffers a read returns in the runs checked: a rename in one buffer,
\* its two halves in buffers of their own, and a file added.
Buffers ==
    {<<NotifyInformation(FILE_ACTION_RENAMED_OLD_NAME, "a.txt"),
       NotifyInformation(FILE_ACTION_RENAMED_NEW_NAME, "b.txt")>>,
     <<NotifyInformation(FILE_ACTION_RENAMED_OLD_NAME, "a.txt")>>,
     <<NotifyInformation(FILE_ACTION_RENAMED_NEW_NAME, "b.txt")>>,
     <<NotifyInformation(FILE_ACTION_ADDED, "a.txt")>>,
     <<NotifyInformation(FILE_ACTION_ADDED, "a.txt"),
       NotifyInformation(FILE_ACTION_MODIFIED, "a.txt"),
       NotifyInformation(FILE_ACTION_REMOVED, "a.txt")>>}

\* What a read on the handle of run l can return: anything while the handle
\* is open, a failure once CloseHandle was called on it.
ReadResults(l) ==
    IF l[2] \in openHandles
    THEN {ReadRecords(b) : b \in Buffers}
             \cup {ReadZero, ReadFailed, ReadException}
    ELSE {ReadFailed}

AllReadResults ==
    {ReadRecords(b) : b \in Buffers} \cup {ReadZero, ReadFailed, ReadException}

\* One watched path: the fs.watch request for it and the reads of its loop.
EngineFrame == Frame("c1", Request("1", "fs.watch", NoneId, "P"))

NextEngine ==
    \/ start
    \/ tasks = <<>> /\ _receive_loop(EngineFrame)
    \/ \E t \in Tasks : watch(t)
    \/ \E t \in Tasks : start_watch(t)
    \/ \E t \in Tasks : watch_resume(t)
    \/ \E l \in loops : watch_loop_test(l)
    \/ \E l \in loops : \E r \in AllReadResults :
          r \in ReadResults(l) /\ watch_loop_read(l, r)

\* The watch loop of one path reading whatever the system returns.
SpecEngine == Init /\ [][NextEngine]_vars

\* The watch requests the frontend sends in the runs checked.
WatchFrames ==
    {Frame("c1", Request("1", "fs.watch", NoneId, "P")),
     Frame("c2", Request("2", "fs.watch", NoneId, "Q")),
     Frame("c1", Request("3", "fs.unwatch", NoneId, "P"))}

\* The reads of the runs with several requests: a file added, an exception,
\* and the failure of a read on a closed handle.
WatchReads ==
    {ReadRecords(<<NotifyInformation(FILE_ACTION_ADDED, "a.txt")>>),
     ReadException, ReadFailed}

NextWatch ==
    \/ start
    \/ \E f \in WatchFrames : _receive_loop(f)
    \/ \E t \in Tasks : unwatch(t)
    \/ \E t \in Tasks : watch(t)
    \/ \E t \in Tasks : start_watch(t)
    \/ \E t \in Tasks : watch_resume(t)
    \/ \E l \in loops : watch_loop_test(l)
    \/ \E l \in loops : \E r \in WatchReads :
          /\ r \in ReadResults(l)
          /\ r = ReadFailed => l[2] \notin openHandles
          /\ watch_loop_read(l, r)

\* The server answering watch and unwatch requests while the watch threads
\* read.
SpecWatch == Init /\ [][NextWatch]_vars

\* The paths of the pool specification.
PathNames == <<"P1", "P2", "P3", "P4", "P5", "P6">>

PoolFrame(i) ==
    Frame("c1", Request(PathNames[i], "fs.watch", NoneId, PathNames[i]))

\* One client watches MaxPaths directories, one request after the other's
\* response; no directory ever changes, so every read blocks.
NextPool ==
    \/ start
    \/ \E i \in 1..MaxPaths :
          /\ Len(tasks) = i - 1
          /\ \A t \in Tasks : tasks[t].pc \in {"done", "crashed"}
          /\ recv_multipart(PoolFrame(i))
    \/ \E t \in Tasks : watch(t)
    \/ \E t \in Tasks : start_watch(t)
    \/ \E t \in Tasks : watch_resume(t)
    \/ \E l \in loops : watch_loop_test(l)

\* The loop and the pool threads run whenever they can.
SpecPool == Init /\ [][NextPool]_vars /\ WF_vars(NextPool)

\* The events the publisher harness gives to event_callback.
PublishEvents ==
    {XPEvent("created", full_path("P", "a.txt"), EmptyDict),
     XPEvent("modified", full_path("P", "a.txt"), EmptyDict)}

\* The publisher under a caller of event_callback, beside one watched path
\* whose loop reads: each run of _publish_event finds a transport that
\* takes the message or one whose write fails.
NextPublish ==
    \/ start
    \/ tasks = <<>> /\ _receive_loop(EngineFrame)
    \/ \E t \in Tasks : watch(t)
    \/ \E t \in Tasks : start_watch(t)
    \/ \E t \in Tasks : watch_resume(t)
    \/ \E l \in loops : watch_loop_test(l)
    \/ \E l \in loops :
          watch_loop_read(l, ReadRecords(
              <<NotifyInformation(FILE_ACTION_ADDED, "a.txt")>>))
    \/ \E e \in PublishEvents : event_callback(e)
    \/ \E write \in BOOLEAN : _publish_event(write)

SpecPublish == Init /\ [][NextPublish]_vars

\* One client watching and unwatching P.
DecodeFrames ==
    {Frame("c1", Request("1", "fs.watch", NoneId, "P")),
     Frame("c1", Request("2", "fs.unwatch", NoneId, "P"))}

\* A buffer of two records.
DecodeBuffer ==
    <<NotifyInformation(FILE_ACTION_ADDED, "a.txt"),
      NotifyInformation(FILE_ACTION_MODIFIED, "a.txt")>>

\* Watch and unwatch requests while the run of P parses its buffers record
\* by record; a read on a closed handle fails.
NextDecode ==
    \/ start
    \/ \E f \in DecodeFrames : _receive_loop(f)
    \/ \E t \in Tasks : unwatch(t)
    \/ \E t \in Tasks : watch(t)
    \/ \E t \in Tasks : start_watch(t)
    \/ \E t \in Tasks : watch_resume(t)
    \/ \E l \in loops : watch_loop_test(l)
    \/ \E l \in loops :
          /\ l[2] \in openHandles
          /\ watch_loop_return(l, ReadRecords(DecodeBuffer))
    \/ \E l \in loops :
          /\ l[2] \notin openHandles
          /\ watch_loop_read(l, ReadFailed)
    \/ \E l \in loops : watch_loop_decode(l)

SpecDecode == Init /\ [][NextDecode]_vars

\* The life of the server as main drives it: started, stopped by the signal
\* handler while an fs.watch request may be in flight, its receive loop
\* ended, and stopped again by main's finally clause.
NextStop ==
    \/ start
    \/ \E f \in WatchFrames : _receive_loop(f)
    \/ receive_loop_exit
    \/ stop
    \/ main_finally
    \/ \E t \in Tasks : unwatch(t)
    \/ \E t \in Tasks : watch(t)
    \/ \E t \in Tasks : start_watch(t)
    \/ \E t \in Tasks : watch_resume(t)

SpecStop == Init /\ [][NextStop]_vars

\* Messages of one frame, as recv_multipart returns them.
ShortMessages == {<<"c1">>, <<"c2">>}

FrameFrames ==
    {Frame("c1", Request("1", "theme.get", NoneId, "")),
     Frame("c2", Payload("garbled", "", "", NoneId, ""))}

\* The server receiving requests and messages that are too short.
NextFrames ==
    \/ start
    \/ \E f \in FrameFrames : _receive_loop(f)
    \/ \E m \in ShortMessages : recv_frames(m)
    \/ receive_loop_exit
    \/ stop
    \/ \E t \in Tasks : decode_error(t)
    \/ \E t \in Tasks : inline(t)
    \/ \E t \in Tasks : \E o \in ServiceOutcomes("theme.get") : inline_done(t, o)

SpecFrames == Init /\ [][NextFrames]_vars

\* Requests with and without an operation_id, for the handlers that take
\* one and for others.
TokenFrames ==
    {Frame("c1", Request("1", "fs.folderSize", "X", "P")),
     Frame("c1", Request("2", "fs.list", NoneId, "P")),
     Frame("c2", Request("3", "fs.search", "", "P")),
     Frame("c2", Request("4", "cancel", "X", "")),
     Frame("c1", Request("5", "fs.info", "X", "P"))}

NextTokens ==
    \/ start
    \/ \E f \in TokenFrames : _receive_loop(f)
    \/ \E t \in Tasks : cancel(t)
    \/ \E t \in Tasks : cancellable(t)
    \/ \E t \in Tasks : offload(t)
    \/ \E t \in Tasks : \E o \in ServiceOutcomes("fs.info") : offload_done(t, o)

\* The server under requests that do and do not ask for a token.
SpecTokens == Init /\ [][NextTokens]_vars

\* ---------------------------------------------------------------- claims

\* The positions in sent of the replies task t sent.
Replies(t) == {i \in 1..Len(sent) : sent[i].task = t}

\* The task has ended: _handle_request returned or an exception left it.
Finished(t) == tasks[t].pc \in {"done", "crashed"}

\* The id a reply to task t must carry: the request's, or "" when the
\* payload is no request.
ExpectedId(t) ==
    IF tasks[t].payload.kind = "map" THEN tasks[t].payload.id ELSE ""

UnknownAction(t) ==
    /\ tasks[t].payload.kind = "map"
    /\ tasks[t].payload.action \notin DOMAIN ACTION_HANDLERS

ReplyCode(t) ==
    IF tasks[t].response = None \/ tasks[t].response.error = None
    THEN ""
    ELSE tasks[t].response.error.code

\* C1: every frame the receive loop took is answered exactly once, with the
\* request's id ("" when the payload cannot be decoded): once its task has
\* ended there is one reply of it in sent, to its identity, with that id,
\* and there is never more than one.
C1_ExactlyOneResponse ==
    \A t \in Tasks :
        /\ Cardinality(Replies(t)) <= 1
        /\ Finished(t) =>
              \E i \in Replies(t) :
                  /\ sent[i].to = tasks[t].identity
                  /\ sent[i].body.id = ExpectedId(t)

\* C2, state part: a request whose action is not in the catalogue invokes no
\* handler, creates no token and is answered success=false, INVALID_REQUEST.
C2_Rejected ==
    \A t \in Tasks :
        UnknownAction(t) =>
            /\ tasks[t].pc \in {"spawned", "done"}
            /\ tasks[t].handler = ""
            /\ tasks[t].outcome = NoOutcome
            /\ tasks[t].token = 0
            /\ tasks[t].pc = "done" =>
                  /\ tasks[t].response.success = FALSE
                  /\ tasks[t].response.id = tasks[t].payload.id
                  /\ ReplyCode(t) = "INVALID_REQUEST"
                  /\ \A i \in Replies(t) :
                        /\ sent[i].body.success = FALSE
                        /\ sent[i].body.error.code = "INVALID_REQUEST"

\* C2, frame part: a step of such a request leaves the cancellation registry
\* and the watch table as they were.
C2_Frame ==
    \A t \in Tasks :
        (UnknownAction(t) /\ tasks'[t] # tasks[t]) =>
            UNCHANGED <<registryVars, watchVars>>

\* C2: for every request whose action name is not in the action catalogue
\* the response has success=false and error.code=INVALID_REQUEST, no handler
\* is invoked, and the cancellation registry and the watch table are
\* unchanged by the request.
C2_UnknownActionRejected == [](C2_Rejected) /\ [][C2_Frame]_vars

\* C2 witness: an unknown action was answered INVALID_REQUEST while a path
\* was being watched.
C2_Witness ==
    \E t \in Tasks :
        /\ UnknownAction(t)
        /\ tasks[t].pc = "done"
        /\ Replies(t) # {}
        /\ ReplyCode(t) = "INVALID_REQUEST"
        /\ DOMAIN watches # {}

\* C3: every reply is addressed to the identity its request came from and
\* carries that request's id, in whatever order the handlers complete.
C3_RepliesCorrelated ==
    \A i \in 1..Len(sent) :
        /\ sent[i].task \in Tasks
        /\ sent[i].to = tasks[sent[i].task].identity
        /\ sent[i].body.id = ExpectedId(sent[i].task)

\* C3 witness: two requests of different identities and ids were in flight
\* together and the later one was answered first.
C3_Witness ==
    \E i, j \in 1..Len(sent) :
        /\ i < j
        /\ sent[i].task > sent[j].task
        /\ sent[i].to # sent[j].to
        /\ sent[i].body.id # sent[j].body.id
        /\ tasks[sent[j].task].seen >= sent[i].task

SomeFrameReceived == \E f \in Frames : _receive_loop(f)

\* C4: the receive loop never waits for a handler: while the server runs,
\* a frame that has arrived can be received whatever the handlers of the
\* earlier requests are doing.
C4_ReceiveNeverWaits ==
    (loop_pc = "running" /\ running /\ router = "open"
        /\ Len(tasks) < MaxRequests)
    => ENABLED SomeFrameReceived

\* C5: the response of an invoked handler follows from its outcome alone: a
\* returned value gives success with the value as data; FileNotFoundError
\* gives PATH_NOT_FOUND, PermissionError ACCESS_DENIED, any other exception
\* UNKNOWN, each with the exception's message; no other code appears.
C5_OutcomeMapping ==
    \A t \in Tasks :
        (tasks[t].pc = "done" /\ tasks[t].handler # "") =>
            LET o == tasks[t].outcome
                r == tasks[t].response
            IN  /\ r.id = tasks[t].payload.id
                /\ o.kind \in {"return", "raise"}
                /\ o.kind = "return" =>
                      r.success /\ r.data = o.value /\ r.error = None
                /\ o.kind = "raise" =>
                      /\ ~r.success
                      /\ r.data = None
                      /\ r.error.message = o.msg
                      /\ r.error.code =
                            (IF o.exc = "FileNotFoundError"
                             THEN "PATH_NOT_FOUND"
                             ELSE IF o.exc = "PermissionError"
                             THEN "ACCESS_DENIED"
                             ELSE "UNKNOWN")

\* C5 witness: three handlers ended in a not-found, a permission and another
\* failure and were answered with the three codes.
C5_Witness ==
    \E a, b, c \in Tasks :
        /\ tasks[a].pc = "done" /\ tasks[a].outcome.exc = "FileNotFoundError"
        /\ ReplyCode(a) = "PATH_NOT_FOUND" /\ Replies(a) # {}
        /\ tasks[b].pc = "done" /\ tasks[b].outcome.exc = "PermissionError"
        /\ ReplyCode(b) = "ACCESS_DENIED" /\ Replies(b) # {}
        /\ tasks[c].pc = "done" /\ tasks[c].outcome.exc = "Exception"
        /\ tasks[c].handler = "handle_fs_info"
        /\ ReplyCode(c) = "UNKNOWN" /\ Replies(c) # {}

\* C6: a payload that is no decodable request map is answered
\* INVALID_REQUEST with id "", reaches no handler, and no exception leaves
\* the task.
C6_MalformedRejected ==
    \A t \in Tasks :
        (Finished(t) /\ tasks[t].payload.kind # "map") =>
            /\ tasks[t].pc = "done"
            /\ tasks[t].handler = ""
            /\ tasks[t].response.id = ""
            /\ tasks[t].response.success = FALSE
            /\ ReplyCode(t) = "INVALID_REQUEST"

\* C7: bad requests and failing handlers never stop the dispatcher: while
\* the server is running the receive loop is in its while, takes the next
\* frame as soon as the loop thread is free, and every request handled is
\* answered.
C7_DispatcherSurvives ==
    running =>
        /\ loop_pc = "running"
        /\ (loopBusy = 0 /\ Len(tasks) < MaxRequests)
              => ENABLED SomeFrameReceived
        /\ \A t \in Tasks :
              tasks[t].pc = "done" => Cardinality(Replies(t)) = 1

\* C7 witness: after a task that crashed on a payload and a handler that
\* failed, a request received later was handled and answered with success.
C7_Witness ==
    /\ running
    /\ \E a, b, c \in Tasks :
          /\ tasks[a].pc = "crashed"
          /\ tasks[b].pc = "done" /\ tasks[b].outcome.kind = "raise"
          /\ tasks[a].seen < c /\ tasks[b].seen < c
          /\ tasks[c].pc = "done" /\ tasks[c].response.success
          /\ Replies(c) # {}

\* C8: every response sent is well-formed: with success true it holds data
\* and no error, with success false an error (code and message) and no data.
C8_WellFormed ==
    \A i \in 1..Len(sent) :
        LET b == sent[i].body
        IN  /\ b.success => ("data" \in DOMAIN b /\ "error" \notin DOMAIN b)
            /\ ~b.success =>
                  /\ "error" \in DOMAIN b
                  /\ "data" \notin DOMAIN b
                  /\ {"code", "message"} \subseteq DOMAIN b.error

\* The calls of regLog that name operation_id.
CallsOn(operation_id) ==
    {i \in 1..Len(regLog) : regLog[i].operation_id = operation_id}

\* No token was created for operation_id strictly between calls i and j.
NoCreateBetween(operation_id, i, j) ==
    \A m \in CallsOn(operation_id) :
        (i < m /\ m < j) => regLog[m].call # "create"

\* Call i is the last call on operation_id before call j.
LastBefore(operation_id, i, j) ==
    /\ i \in CallsOn(operation_id)
    /\ i < j
    /\ \A m \in CallsOn(operation_id) : m < j => m <= i

\* C9: cancellation is idempotent.  A cancel of X that finds the token just
\* created for X returns cancelled=true; a cancel of X that follows another
\* cancel of X with no create of X in between returns cancelled=false; each
\* token is set at most once and at most one cancel returns true for it.
C9_CancelIdempotent ==
    /\ \A x \in OperationIds : \A j \in CallsOn(x) :
          regLog[j].call = "cancel" =>
              /\ \A i \in CallsOn(x) :
                    (LastBefore(x, i, j) /\ regLog[i].call = "create")
                    => (regLog[j].result = TRUE
                        /\ regLog[j].token = regLog[i].token)
              /\ \A i \in CallsOn(x) :
                    (i < j /\ regLog[i].call = "cancel"
                       /\ NoCreateBetween(x, i, j))
                    => regLog[j].result = FALSE
    /\ \A a, b \in 1..Len(setCalls) : setCalls[a] = setCalls[b] => a = b
    /\ \A a, b \in 1..Len(regLog) :
          (/\ regLog[a].call = "cancel" /\ regLog[a].result = TRUE
           /\ regLog[b].call = "cancel" /\ regLog[b].result = TRUE
           /\ regLog[a].token = regLog[b].token)
          => a = b

\* C9 witness: a token was created for X and X was cancelled twice, the
\* first cancel returning true and setting the token, the second false.
C9_Witness ==
    \E i \in 1..Len(regLog) :
        /\ i + 2 <= Len(regLog)
        /\ regLog[i] = RegCall("create", "X", regLog[i].token, TRUE)
        /\ regLog[i + 1] = RegCall("cancel", "X", regLog[i].token, TRUE)
        /\ regLog[i + 2] = RegCall("cancel", "X", 0, FALSE)
        /\ setCalls = <<regLog[i].token>>

\* A cancel request for the operation of task t was received while t had
\* not finished.
CancelledWhilePending(t) ==
    \E c \in Tasks :
        /\ t < c
        /\ c <= tasks[t].seen
        /\ tasks[c].payload.kind = "map"
        /\ tasks[c].payload.action = "cancel"
        /\ tasks[c].payload.operation_id = tasks[t].payload.operation_id

\* C10: a cancellable operation invoked with operation_id X, whose token was
\* created and for which cancel(X) arrived before it finished, is answered
\* with a failure whose code is OPERATION_CANCELLED, never with a success or
\* a generic failure code.
C10_CancelledOutcome ==
    \A t \in Tasks :
        (/\ tasks[t].pc = "done"
         /\ tasks[t].payload.kind = "map"
         /\ tasks[t].payload.action \in Cancellable
         /\ tasks[t].token # 0
         /\ CancelledWhilePending(t))
        => (/\ tasks[t].response.success = FALSE
            /\ ReplyCode(t) = "OPERATION_CANCELLED")

\* Task t is a cancellable operation with operation_id x that was received
\* and has not ended.
InFlightCancellable(t, x) ==
    /\ ~Finished(t)
    /\ tasks[t].payload.kind = "map"
    /\ tasks[t].payload.action \in Cancellable
    /\ tasks[t].payload.operation_id = x

\* C11: a cancellation token never outlives its operation: every
\* operation_id in the registry belongs to a cancellable operation that is
\* still in flight, so once the operations using an id have ended the
\* registry holds no entry for it.
C11_TokenLifetime ==
    \A x \in DOMAIN _cancellation_tokens :
        \E t \in Tasks : InFlightCancellable(t, x)

\* C11 witness: a cancellable operation created its token for X and ended,
\* and the registry holds nothing for X.
C11_Witness ==
    \E t \in Tasks :
        /\ tasks[t].pc = "done"
        /\ tasks[t].payload.action \in Cancellable
        /\ tasks[t].token # 0
        /\ \E i \in 1..Len(regLog) :
              regLog[i] = RegCall("create", "X", tasks[t].token, TRUE)
        /\ "X" \notin DOMAIN _cancellation_tokens

\* The step is a cancel call that names no operation_id or one that is not
\* registered.
CancelOfUnknown ==
    /\ Len(regLog') = Len(regLog) + 1
    /\ regLog'[Len(regLog')].call = "cancel"
    /\ \/ ~Truthy(regLog'[Len(regLog')].operation_id)
       \/ regLog'[Len(regLog')].operation_id \notin DOMAIN _cancellation_tokens

\* C12: a cancel request that names an operation_id that is not registered,
\* or none, is a no-op: it returns {cancelled: false, operation_id: the id
\* given}, sets no signal and leaves the registry unchanged.
C12_CancelUnknownNoOp ==
    [][CancelOfUnknown =>
          LET x == regLog'[Len(regLog')].operation_id
          IN  /\ handle_cancel(_cancellation_tokens, x).result =
                    [cancelled |-> FALSE, operation_id |-> x]
              /\ regLog'[Len(regLog')].result = FALSE
              /\ _cancellation_tokens' = _cancellation_tokens
              /\ setCalls' = setCalls
              /\ nextToken' = nextToken]_vars

\* C12 witness: with a token registered for X, a cancel of Y and a cancel
\* that names no operation were answered false; X is still registered and
\* no signal was set.
C12_Witness ==
    /\ "X" \in DOMAIN _cancellation_tokens
    /\ setCalls = <<>>
    /\ \E i, j, k \in 1..Len(regLog) :
          /\ i < j /\ i < k
          /\ regLog[i].call = "create" /\ regLog[i].operation_id = "X"
          /\ regLog[j] = RegCall("cancel", "Y", 0, FALSE)
          /\ regLog[k] = RegCall("cancel", NoneId, 0, FALSE)

\* Task t is a cancel request.
IsCancel(t) ==
    tasks[t].payload.kind = "map" /\ tasks[t].payload.action = "cancel"

\* C13, frame part: the step in which a cancel request is handled changes
\* no other task.
C13_Frame ==
    \A t \in Tasks :
        (IsCancel(t) /\ tasks'[t] # tasks[t]) =>
            \A u \in Tasks : u # t => tasks'[u] = tasks[u]

\* C13, state part: a cancellable operation is never ended from outside: it
\* is waiting to run or has run to its end and built the response of its
\* own outcome; a cancel request has its own response.
C13_OwnResponses ==
    \A t \in Tasks :
        /\ (tasks[t].payload.kind = "map"
              /\ tasks[t].payload.action \in Cancellable) =>
              /\ tasks[t].pc \in {"spawned", "done"}
              /\ tasks[t].pc = "done" =>
                    /\ tasks[t].response =
                          route_outcome(tasks[t].payload.id, tasks[t].outcome)
                    /\ \A i \in Replies(t) :
                          sent[i].body = to_dict(tasks[t].response)
        /\ (IsCancel(t) /\ tasks[t].pc = "done") =>
              /\ tasks[t].response.id = tasks[t].payload.id
              /\ tasks[t].response.success
              /\ tasks[t].response.data.operation_id =
                    tasks[t].payload.operation_id

\* C13: cancellation is cooperative only: a cancel request sets the signal
\* and returns, it never ends the handler of the operation it names; that
\* handler runs to its end and its request gets its own response, and the
\* cancel request gets its own.
C13_CooperativeOnly == [](C13_OwnResponses) /\ [][C13_Frame]_vars

\* C13 witness: a cancel of X was handled while an operation with id X was
\* waiting to run; afterwards the operation ran and both were answered.
C13_Witness ==
    \E c, t \in Tasks :
        /\ IsCancel(c) /\ tasks[c].pc = "done"
        /\ tasks[t].payload.kind = "map"
        /\ tasks[t].payload.action \in Cancellable
        /\ tasks[t].payload.operation_id = tasks[c].payload.operation_id
        /\ c < t /\ t <= tasks[c].seen
        /\ tasks[t].pc = "done"
        /\ Replies(c) # {} /\ Replies(t) # {}

\* The positions in emitted of the events that came from record i of read n.
EventsOf(n, i) ==
    {k \in 1..Len(emitted) : emitted[k].read = n /\ emitted[k].record = i}

\* Record i of the buffer of read n is an old name immediately followed by
\* a new name.
RenamePair(n, i) ==
    /\ readLog[n].result.kind = "records"
    /\ i + 1 <= Len(readLog[n].result.buffer)
    /\ readLog[n].result.buffer[i].Action = FILE_ACTION_RENAMED_OLD_NAME
    /\ readLog[n].result.buffer[i + 1].Action = FILE_ACTION_RENAMED_NEW_NAME

\* C14 as stated: a buffer holding an old-name record for A immediately
\* followed by a new-name record for B yields exactly one RENAMED event,
\* with path = B and data.oldPath = A, and nothing for the old-name record.
C14_RenameAsStated ==
    \A n \in 1..Len(readLog) :
        \A i \in 1..Len(readLog[n].result.buffer) :
            RenamePair(n, i) =>
                /\ EventsOf(n, i) = {}
                /\ Cardinality(EventsOf(n, i + 1)) = 1
                /\ \A k \in EventsOf(n, i + 1) :
                      /\ emitted[k].event.data.eventType = "renamed"
                      /\ emitted[k].event.path =
                            readLog[n].result.buffer[i + 1].FileName
                      /\ emitted[k].event.data.oldPath =
                            readLog[n].result.buffer[i].FileName

\* C14, amended: a buffer holding an old-name record for A immediately
\* followed by a new-name record for B yields exactly one RENAMED event,
\* whose path is B under the watched path (watched path, a backslash, B) and
\* whose data.oldPath is A under the watched path; an old-name record by
\* itself yields no event.
C14_RenameReconstruction ==
    \A n \in 1..Len(readLog) :
        \A i \in 1..Len(readLog[n].result.buffer) :
            LET rec == readLog[n].result.buffer[i]
                watched == readLog[n].loop[1]
            IN  /\ rec.Action = FILE_ACTION_RENAMED_OLD_NAME =>
                      EventsOf(n, i) = {}
                /\ RenamePair(n, i) =>
                      /\ Cardinality(EventsOf(n, i + 1)) = 1
                      /\ \A k \in EventsOf(n, i + 1) :
                            /\ emitted[k].event.type = "fs.changed"
                            /\ emitted[k].event.data.eventType = "renamed"
                            /\ emitted[k].event.path =
                                  watched \o "\\" \o
                                  readLog[n].result.buffer[i + 1].FileName
                            /\ emitted[k].event.data.oldPath =
                                  watched \o "\\" \o rec.FileName

\* C14 witness: a read returned the buffer [old name a.txt, new name b.txt]
\* and one event, RENAMED, was emitted for it.
C14_Witness ==
    \E n \in 1..Len(readLog) :
        /\ RenamePair(n, 1)
        /\ \E k \in 1..Len(emitted) :
              /\ emitted[k].read = n
              /\ emitted[k].event.data.eventType = "renamed"
              /\ emitted[k].event.data.oldPath = "P\\a.txt"
        /\ Cardinality({k \in 1..Len(emitted) : emitted[k].read = n}) = 1

\* C15: an old-name record not followed by a new-name record before its
\* buffer ends never contributes to an event: every RENAMED event that
\* carries an old path takes it from an old-name record earlier in the same
\* buffer, never from a buffer read before.
C15_NoStaleRename ==
    \A k \in 1..Len(emitted) :
        (/\ emitted[k].event.data.eventType = "renamed"
         /\ emitted[k].event.data.oldPath # NoneId)
        => \E i \in 1..(emitted[k].record - 1) :
              LET rec == readLog[emitted[k].read].result.buffer[i]
              IN  /\ rec.Action = FILE_ACTION_RENAMED_OLD_NAME
                  /\ emitted[k].event.data.oldPath =
                        full_path(emitted[k].loop[1], rec.FileName)

\* C16: every failure of the native read (a failed call, a success with zero
\* bytes, an exception) emits exactly one OVERFLOW event for the watched
\* path and ends the loop of that path, which does not read again.
C16_OverflowOnReadFailure ==
    \A n \in 1..Len(readLog) :
        readLog[n].result.kind # "records" =>
            /\ Cardinality({k \in 1..Len(emitted) :
                              /\ emitted[k].read = n
                              /\ emitted[k].event.data.eventType = "overflow"
                              /\ emitted[k].event.path = readLog[n].loop[1]})
                  = 1
            /\ threads[readLog[n].loop].pc = "ended"
            /\ \A m \in (n + 1)..Len(readLog) :
                  readLog[m].loop # readLog[n].loop

\* C17: once a read failure has produced the OVERFLOW event of a path, the
\* path is unwatched: the subscription table has no entry for it, so the
\* next watch of it opens a new subscription.
C17_UnwatchedAfterOverflow ==
    \A k \in 1..Len(emitted) :
        emitted[k].event.data.eventType = "overflow" =>
            \/ emitted[k].loop[1] \notin DOMAIN watches
            \/ watches[emitted[k].loop[1]] # emitted[k].loop[2]

\* Task t is a request of the given action.
IsAction(t, action) ==
    tasks[t].payload.kind = "map" /\ tasks[t].payload.action = action

\* The step is the handler of fs.watch request t starting on a path that is
\* in the subscription table.
WatchOfWatched(t) ==
    /\ IsAction(t, "fs.watch")
    /\ tasks[t].pc = "spawned"
    /\ tasks'[t].pc # "spawned"
    /\ tasks[t].payload.path \in DOMAIN watches

\* C18, frame part: a watch of a path already in the table opens no
\* subscription, starts no loop, leaves the table, the loops and the events
\* as they are, and is answered at once with success.
C18_Frame ==
    \A t \in Tasks :
        WatchOfWatched(t) =>
            /\ UNCHANGED watchVars
            /\ tasks'[t].pc = "done"
            /\ tasks'[t].response.success
            /\ tasks'[t].response.data =
                  [watching |-> tasks[t].payload.path]

\* C18, state part: no record a read returned has two events.
C18_NoDuplicates ==
    \A n \in 1..Len(readLog) :
        \A i \in 1..Len(readLog[n].result.buffer) :
            Cardinality(EventsOf(n, i)) <= 1

\* C18: watch(P) on a path that is already Active is a no-op: no second
\* subscription, no second loop, the table unchanged, and every record
\* still one event.
C18_WatchIdempotent == [](C18_NoDuplicates) /\ [][C18_Frame]_vars

\* C18 witness: two fs.watch requests for P were answered with success, one
\* handle was ever opened, and the one loop of P emitted the event of a
\* record after both.
C18_Witness ==
    /\ nextHandle = 2
    /\ loops = {<<"P", 1>>}
    /\ \E t, u \in Tasks :
          /\ t < u
          /\ IsAction(t, "fs.watch") /\ tasks[t].payload.path = "P"
          /\ IsAction(u, "fs.watch") /\ tasks[u].payload.path = "P"
          /\ tasks[t].pc = "done" /\ tasks[t].response.success
          /\ tasks[u].pc = "done" /\ tasks[u].response.success
    /\ Len(emitted) = 1
    /\ emitted[1].event.data.eventType = "created"

\* The runs of _watch_loop for path p whose handle is open, and those that
\* have not returned.
OpenFor(p) == {l \in loops : l[1] = p /\ l[2] \in openHandles}

RunningFor(p) == {l \in loops : l[1] = p /\ threads[l].pc # "ended"}

\* C19: under any interleaving of fs.watch and fs.unwatch requests there is
\* at most one open native subscription and at most one running read loop
\* per path, and the table holds the subscription that is open.
C19_OneSubscriptionPerPath ==
    \A l \in loops :
        /\ Cardinality(OpenFor(l[1])) <= 1
        /\ Cardinality(RunningFor(l[1])) <= 1
        /\ l[2] \in openHandles =>
              (l[1] \in DOMAIN watches /\ watches[l[1]] = l[2])

\* The step is the handler of fs.unwatch request t running on a path that is
\* not in the subscription table.
UnwatchOfUnwatched(t) ==
    /\ IsAction(t, "fs.unwatch")
    /\ tasks[t].pc = "spawned"
    /\ tasks'[t].pc # "spawned"
    /\ tasks[t].payload.path \notin DOMAIN watches

\* C20: unwatch(P) on a path that is not watched is a no-op: the table and
\* every other path's subscription and loop are unchanged, no handle is
\* closed, and the request is answered success with data {unwatched: P}.
C20_UnwatchUnknownNoOp ==
    [][\A t \in Tasks :
          UnwatchOfUnwatched(t) =>
              /\ UNCHANGED watchVars
              /\ tasks'[t].pc = "done"
              /\ tasks'[t].response.success
              /\ tasks'[t].response.data =
                    [unwatched |-> tasks[t].payload.path]
              /\ sent' = Append(sent,
                    [to |-> tasks[t].identity, task |-> t,
                     body |-> [id |-> tasks[t].payload.id, success |-> TRUE,
                               data |-> [unwatched |->
                                             tasks[t].payload.path]]])]_vars

\* C20 witness: with Q watched and P never watched, an unwatch of P was
\* answered success; Q's subscription is open and in the table.
C20_Witness ==
    /\ watches = [Q |-> 1]
    /\ openHandles = {1}
    /\ nextHandle = 2
    /\ \E t \in Tasks :
          /\ IsAction(t, "fs.unwatch")
          /\ tasks[t].payload.path = "P"
          /\ tasks[t].pc = "done"
          /\ tasks[t].response.success
          /\ Replies(t) # {}
          /\ \E u \in Tasks :
                /\ u < t /\ IsAction(u, "fs.watch") /\ tasks[u].pc = "done"


\* ------------------------------------------------------------------- C21

\* The processed records of read n whose action is 'added'.
AddedRecords ==
    UNION {{<<n, i>> : i \in {j \in 1..Len(readLog[n].result.buffer) :
                                 readLog[n].result.buffer[j].Action
                                     = FILE_ACTION_ADDED}} :
           n \in 1..Len(readLog)}

\* fs.watch for path was answered {id, success true, data {watching: path}}.
WatchAnswered(id, path) ==
    \E i \in 1..Len(sent) :
        /\ sent[i].body.id = id
        /\ sent[i].body.success
        /\ "data" \in DOMAIN sent[i].body
        /\ sent[i].body.data = [watching |-> path]

\* The messages on the broadcast channel that announce filename created
\* under path.
CreatedMessages(path, filename) ==
    {k \in 1..Len(published) :
        published[k] =
            publish_frames(XPEvent("created", full_path(path, filename),
                                   EmptyDict))}

\* C21: after fs.watch 1 for P was answered {id 1, success true, data
\* {watching: P}}, a native 'added' record for N under P yields one
\* message on the broadcast channel, of type "fs.changed", path P\N,
\* eventType "created" and topic P\N.  Nothing reaches the channel but
\* through a scheduled coroutine, so once none is pending the message of
\* every processed record has to be there.
C21_AddedIsPublished ==
    \A a \in AddedRecords :
        LET l == readLog[a[1]].loop
            N == readLog[a[1]].result.buffer[a[2]].FileName
        IN  (WatchAnswered("1", l[1]) /\ scheduled = <<>>)
                => CreatedMessages(l[1], N) # {}


\* ------------------------------------------------------------------- C22

\* The event type the specification gives for a plain record.
PlainType(action) ==
    CASE action = FILE_ACTION_ADDED -> "created"
      [] action = FILE_ACTION_REMOVED -> "deleted"
      [] action = FILE_ACTION_MODIFIED -> "modified"
      [] OTHER -> ""

\* The processed added, removed and modified records, as <<read, index>>.
PlainRecords ==
    UNION {{<<n, i>> : i \in {j \in 1..Len(readLog[n].result.buffer) :
                                 PlainType(readLog[n].result.buffer[j].Action)
                                     # ""}} :
           n \in 1..Len(readLog)}

\* The place of plain record r among the plain records, in native order.
PlainRank(r) ==
    Cardinality({q \in PlainRecords :
                    q[1] < r[1] \/ (q[1] = r[1] /\ q[2] <= r[2])})

IsPlainMessage(m) ==
    m.data.data.eventType \in {"created", "deleted", "modified"}

\* C22: the records of a directory are processed in order and each added,
\* removed or modified record yields exactly one CREATED, DELETED or
\* MODIFIED event, so that once no publication is pending the created,
\* deleted and modified messages on the channel are those of the processed
\* records, one each, in the order the system reported them.
C22_PublishedInNativeOrder ==
    LET pub == SelectSeq(published, IsPlainMessage)
    IN  scheduled = <<>> =>
            /\ Len(pub) = Cardinality(PlainRecords)
            /\ \A r \in PlainRecords :
                  LET rec == readLog[r[1]].result.buffer[r[2]]
                      path == readLog[r[1]].loop[1]
                  IN  pub[PlainRank(r)] =
                          publish_frames(
                              XPEvent(PlainType(rec.Action),
                                      full_path(path, rec.FileName),
                                      EmptyDict))

\* The same at the calls of _emit_event: the plain events emitted are those
\* of the processed records, one each, in native order.
C22_EmittedInNativeOrder ==
    LET IsPlain(e) == e.event.data.eventType
                          \in {"created", "deleted", "modified"}
        em == SelectSeq(emitted, IsPlain)
    IN  /\ Len(em) = Cardinality(PlainRecords)
        /\ \A r \in PlainRecords :
              LET rec == readLog[r[1]].result.buffer[r[2]]
                  path == readLog[r[1]].loop[1]
              IN  em[PlainRank(r)].event =
                      XPEvent(PlainType(rec.Action),
                              full_path(path, rec.FileName), EmptyDict)


\* ------------------------------------------------------------------- C23

\* The run of the watch on path is in its blocking read.
Reading(path) ==
    \E l \in loops : l[1] = path /\ threads[l].pc = "reading"

\* C23: every watched path gets its own running read loop: however many
\* paths are watched at once, the loop of each of them eventually reads,
\* and a watch whose read blocks forever never keeps the loop of another
\* path from starting.
C23_EveryLoopStarts ==
    \A i \in 1..MaxPaths :
        (PathNames[i] \in DOMAIN watches) ~> Reading(PathNames[i])


\* ------------------------------------------------------------------- C24

\* C24: publishing is fire-and-forget.  The watch loop hands each event to
\* the publisher, so every emitted event is either waiting on the loop or
\* has gone through _publish_event, and it goes on without waiting for the
\* send: whatever is pending, a run at its while test can take its step.
C24_HandedOverWithoutWaiting ==
    /\ Len(scheduled) + Len(publishLog) = Len(emitted)
    /\ \A l \in loops :
          threads[l].pc = "test" => ENABLED watch_loop_test(l)


\* ------------------------------------------------------------------- C25

\* This step is a run of _publish_event whose transport write failed.
FailedPublish ==
    /\ Len(publishLog') = Len(publishLog) + 1
    /\ publishLog'[Len(publishLog')].outcome = "logged"

\* C25: a failed transport write while publishing is logged and the event
\* dropped: nothing is sent, the event is not put back on any queue, no
\* task and no response changes (the fs.watch response stays what it was),
\* and the server, the watch table and the watch loops are left as they
\* were.
C25_FailedPublishDropped ==
    [][FailedPublish =>
          /\ published' = published
          /\ scheduled' = Tail(scheduled)
          /\ publishLog'[Len(publishLog')].event = Head(scheduled)
          /\ UNCHANGED <<tasks, sent>>
          /\ UNCHANGED <<running, router, loop_pc, loopBusy>>
          /\ UNCHANGED <<watch_running, watches, openHandles, loops,
                         threads>>]_vars

\* A publication failed after fs.watch was answered success; the event is
\* nowhere, the server receives and the loop of P reads.
C25_Witness ==
    /\ \E k \in 1..Len(publishLog) : publishLog[k].outcome = "logged"
    /\ published = <<>>
    /\ scheduled = <<>>
    /\ WatchAnswered("1", "P")
    /\ receive_ready
    /\ Reading("P")
    /\ Len(readLog) > 0


\* ------------------------------------------------------------------- C26

\* C26: shutdown is observed promptly.  Once stop has cleared running, the
\* receive loop can leave its while as soon as the loop thread is free, the
\* only step it still takes is that exit, and no request is received and
\* given to a task any more.
C26_ShutdownObserved ==
    /\ []((~running /\ loop_pc = "running" /\ loopBusy = 0)
             => ENABLED receive_loop_exit)
    /\ [][/\ Len(tasks') > Len(tasks) => running /\ router = "open"
          /\ (~running /\ loop_pc = "running" /\ loop_pc' # loop_pc)
                => loop_pc' = "exited"
          /\ (~running /\ loop_pc = "running") => ~running']_vars

\* The server was stopped after it had received a request, and its receive
\* loop has ended.
C26_Witness ==
    /\ ~running
    /\ router = "closed"
    /\ loop_pc = "exited"
    /\ Len(tasks) > 0


\* ------------------------------------------------------------------- C27

\* Task t is a request for a handler that supports cancellation, with a
\* non-empty operation_id.
AsksForToken(t) ==
    /\ tasks[t].payload.kind = "map"
    /\ tasks[t].payload.action \in {"fs.list", "fs.folderSize", "fs.search"}
    /\ tasks[t].payload.operation_id \notin {NoneId, ""}

\* C27: a cancellation token is created only by fs.list, fs.folderSize or
\* fs.search invoked with a non-empty operation_id.  A step of such a
\* request creates one token; a step of any other request, these three
\* without operation_id included, and the reception of a request leave the
\* registry as it was and create none.
C27_TokenCreatedOnlyOnRequest ==
    [][/\ \A t \in 1..Len(tasks) :
             tasks'[t] # tasks[t] =>
                 IF AsksForToken(t)
                 THEN /\ nextToken' = nextToken + 1
                      /\ regLog'[Len(regLog) + 1] =
                             RegCall("create", tasks[t].payload.operation_id,
                                     nextToken, TRUE)
                 ELSE /\ UNCHANGED <<_cancellation_tokens, nextToken>>
                      /\ \A i \in (Len(regLog) + 1)..Len(regLog') :
                            regLog'[i].call # "create"
       /\ Len(tasks') > Len(tasks) => UNCHANGED registryVars]_vars

\* fs.folderSize with operation_id X got a token; fs.list without one,
\* fs.search with an empty one and fs.info with X got none.
C27_Witness ==
    /\ \E t \in Tasks :
          /\ tasks[t].pc = "done"
          /\ tasks[t].payload.action = "fs.folderSize"
          /\ tasks[t].token # 0
    /\ \E t \in Tasks :
          /\ tasks[t].pc = "done"
          /\ tasks[t].payload.action \in {"fs.list", "fs.search", "fs.info"}
          /\ tasks[t].token = 0
    /\ nextToken = 2


\* ------------------------------------------------------------------- C28

\* This step is a call of _cleanup_token.
IsRelease ==
    /\ Len(regLog') = Len(regLog) + 1
    /\ regLog'[Len(regLog')].call = "cleanup"

\* C28: release(operation_id) is unconditional and idempotent.  It removes
\* the registration of that id and nothing else; for an id that is not
\* registered, never registered or already removed by a cancel, it changes
\* nothing; and releasing once more after a release changes nothing.
C28_ReleaseIdempotent ==
    [][IsRelease =>
          LET x == regLog'[Len(regLog')].operation_id
          IN  /\ DOMAIN _cancellation_tokens'
                    = DOMAIN _cancellation_tokens \ {x}
              /\ \A y \in DOMAIN _cancellation_tokens' :
                    _cancellation_tokens'[y] = _cancellation_tokens[y]
              /\ x \notin DOMAIN _cancellation_tokens
                    => _cancellation_tokens' = _cancellation_tokens
              /\ _cleanup_token(_cancellation_tokens', x)
                    = _cancellation_tokens'
              /\ UNCHANGED <<nextToken, setCalls>>]_vars

\* With Y registered, X was registered, cancelled, and then released twice:
\* both releases found nothing, and Y is still registered.
C28_Witness ==
    /\ "Y" \in DOMAIN _cancellation_tokens
    /\ \E i \in 1..Len(regLog) :
          /\ i + 2 <= Len(regLog)
          /\ regLog[i].call = "cancel" /\ regLog[i].operation_id = "X"
          /\ regLog[i].result = TRUE
          /\ regLog[i + 1] = RegCall("cleanup", "X", 0, FALSE)
          /\ regLog[i + 2] = RegCall("cleanup", "X", 0, FALSE)


\* ------------------------------------------------------------------- C29

\* The operation that registered its token at call i is still in flight
\* and uncancelled for sure: since then its operation_id was neither
\* released nor cancelled.
InFlightUncancelled(i) ==
    /\ regLog[i].call = "create"
    /\ \A j \in (i + 1)..Len(regLog) :
          regLog[j].operation_id = regLog[i].operation_id
              => regLog[j].call = "create"

IsCancelCall ==
    /\ Len(regLog') = Len(regLog) + 1
    /\ regLog'[Len(regLog')].call = "cancel"

\* C30: cancel(X) affects only operation X.  For every other operation_id
\* Y the token registered under Y is neither removed nor replaced nor set,
\* no registration appears, and no task or response changes.
C30_CancelAffectsOnlyItsOperation ==
    [][IsCancelCall =>
          LET x == regLog'[Len(regLog')].operation_id
          IN  /\ \A y \in DOMAIN _cancellation_tokens \ {x} :
                    /\ y \in DOMAIN _cancellation_tokens'
                    /\ _cancellation_tokens'[y] = _cancellation_tokens[y]
                    /\ \A k \in (Len(setCalls) + 1)..Len(setCalls') :
                          setCalls'[k] # _cancellation_tokens[y]
              /\ DOMAIN _cancellation_tokens' \subseteq
                    DOMAIN _cancellation_tokens
              /\ UNCHANGED <<tasks, sent, nextToken>>]_vars

\* With X and Y registered, cancel(X) returned true and set the token of
\* X; Y is still registered with its token, which was not set.
C30_Witness ==
    \E i, j, k \in 1..Len(regLog) :
        /\ i < k /\ j < k
        /\ regLog[i].call = "create" /\ regLog[i].operation_id = "X"
        /\ regLog[j].call = "create" /\ regLog[j].operation_id = "Y"
        /\ regLog[k] = RegCall("cancel", "X", regLog[i].token, TRUE)
        /\ setCalls = <<regLog[i].token>>
        /\ "X" \notin DOMAIN _cancellation_tokens
        /\ "Y" \in DOMAIN _cancellation_tokens
        /\ _cancellation_tokens["Y"] = regLog[j].token


\* ------------------------------------------------------------------- C31

\* C31: after unwatch(P) the read loop of the closed subscription ends,
\* also when P is watched again at once: a run whose handle was closed
\* never passes its while test again to read on that handle, so it is never
\* left running beside the run of the new subscription.
C31_ClosedLoopEnds ==
    [][\A l \in loops :
          (/\ threads[l].pc = "test"
           /\ threads'[l].pc # "test"
           /\ l[2] \notin openHandles)
          => threads'[l].pc = "ended"]_vars


\* ------------------------------------------------------------------- C32

\* C32: once unwatch(P) has completed, and until P is watched anew, no
\* further event is emitted for the subscription it closed, also when the
\* unwatch ran while the loop was in the middle of a batch: every event is
\* emitted for a subscription that is still open.
C32_NoEventAfterUnwatch ==
    [][\A k \in (Len(emitted) + 1)..Len(emitted') :
          LET l == emitted'[k].loop
          IN  l[2] \in openHandles]_vars


\* ------------------------------------------------------------------- C33

\* C33: every RENAMED event emitted carries a data.oldPath that is not
\* null and is the path of the old-name record that immediately precedes
\* its new-name record; a new-name record with no old name buffered emits
\* no RENAMED event whose oldPath is missing.
C33_RenamedHasOldPath ==
    \A k \in 1..Len(emitted) :
        emitted[k].event.data.eventType = "renamed" =>
            LET buffer == readLog[emitted[k].read].result.buffer
                i == emitted[k].record
            IN  /\ "oldPath" \in DOMAIN emitted[k].event.data
                /\ emitted[k].event.data.oldPath # NoneId
                /\ i > 1
                /\ buffer[i - 1].Action = FILE_ACTION_RENAMED_OLD_NAME
                /\ emitted[k].event.data.oldPath =
                       full_path(emitted[k].loop[1], buffer[i - 1].FileName)


\* ------------------------------------------------------------------- C34

\* In this step the watch of fs.watch request t fails.
WatchFails(t) ==
    /\ IsAction(t, "fs.watch")
    /\ tasks[t].outcome = NoOutcome
    /\ tasks'[t].outcome.kind = "raise"

\* C34: when watch(P) fails, because the native subscription cannot be
\* opened or because the read loop cannot be scheduled, the request is
\* answered with success false, and the failing step leaves no entry for P
\* in the table, no open handle and no read loop behind, so that a later
\* watch(P) finds what it would have found before and starts afresh.
C34_FailedWatchLeavesNothing ==
    /\ [](\A t \in Tasks :
             (/\ IsAction(t, "fs.watch")
              /\ tasks[t].pc = "done"
              /\ tasks[t].outcome.kind = "raise")
             => ~tasks[t].response.success)
    /\ [][\A t \in 1..Len(tasks) :
             WatchFails(t) => UNCHANGED <<watches, openHandles, loops>>]_vars


\* ------------------------------------------------------------------- C35

\* WatchService.stop has run.
WatchServiceStopped == ~watch_running /\ router = "closed"

\* C35: after WatchService.stop the subscription table is empty and stays
\* so, also with an fs.watch request in flight during the stop, and no
\* subscription is left open for a read loop to block on.
C35_StoppedServiceIsEmpty ==
    WatchServiceStopped =>
        /\ watches = EmptyDict
        /\ \A l \in loops : l[2] \notin openHandles


\* ------------------------------------------------------------------- C36

\* C36: orderly shutdown.  stop does not close the request channel while a
\* handler task is in flight, and every request received before stop has
\* its one response sent: once the router is closed, every task that did
\* not die of an exception has finished and has one response on the wire.
C36_OrderlyShutdown ==
    router = "closed" =>
        \A t \in Tasks :
            tasks[t].pc # "crashed" =>
                /\ tasks[t].pc = "done"
                /\ Cardinality(Replies(t)) = 1


\* ------------------------------------------------------------------- C37

\* This step is the second call of stop, from main's finally clause.
SecondStop == loop_pc = "exited" /\ loop_pc' = "finished"

\* C37: stop may be called more than once.  The second call ends without
\* error with the running flags false, the subscription table empty and
\* the sockets closed, and stopping a stopped state gives that state again.
C37_StopIdempotent ==
    /\ [](server_stop(server_stop(StopState)) = server_stop(StopState))
    /\ [][SecondStop =>
             /\ ~running /\ router = "closed"
             /\ ~running' /\ ~watch_running'
             /\ watches' = EmptyDict
             /\ router' = "closed"
             /\ UNCHANGED <<tasks, sent>>]_vars

\* stop ran twice on a server that had watched P: the loop has ended, main
\* is past its finally clause, and the state is the stopped one.
C37_Witness ==
    /\ loop_pc = "finished"
    /\ ~running
    /\ router = "closed"
    /\ watches = EmptyDict
    /\ nextHandle > 1


\* ------------------------------------------------------------------- C38

\* In this step a message of fewer than two frames is received.
ShortReceived == shortReceived' # shortReceived

\* C38: a received message with fewer than two frames is discarded: no
\* task is created for it, so no handler runs, no response is sent, nothing
\* else changes, and the receive loop can go on with the next message.
C38_ShortMessageDiscarded ==
    [][ShortReceived =>
          /\ UNCHANGED <<tasks, sent, running, router, loop_pc, loopBusy>>
          /\ UNCHANGED <<registryVars, watchVars>>
          /\ receive_ready']_vars

\* Short messages were received between requests: the requests were
\* answered, the short messages left nothing.
C38_Witness ==
    /\ shortReceived = 2
    /\ Len(tasks) = 1
    /\ tasks[1].pc = "done"
    /\ Len(sent) = 1
    /\ receive_ready

====
